---- MODULE Spec2Model ----
(***************************************************************************)
(* Model of tesla_mqtt_bridge.py: the per-vehicle session coroutine        *)
(* handle_single_vin (connect, subscribe, stream, close, backoff), the     *)
(* message classifier process_vehicle_message with the field conversion   *)
(* of TeslaMetricConverter, ReconnectionManager and the supervisor main()  *)
(* with its shutdown sequence.                                             *)
(*                                                                         *)
(* asyncio runs the tasks on one thread, so an action is the code a task   *)
(* executes between two awaits.  pc[c] names the await the session of car  *)
(* c is suspended at.  task.cancel() is modelled by cancelPending: the     *)
(* next resumption of the task raises CancelledError at that await.        *)
(* Delays are in hundredths of a second.                                   *)
(***************************************************************************)
EXTENDS Integers, Sequences, FiniteSets, TLC

\* The car numbers of the configured vehicles (the two test VINs).
Cars == {1, 2}

\* ReconnectionManager defaults.
BaseDelay == 5
MaxDelay == 300
JitterPercent == 10

\* Bound on consecutive failed connection attempts explored.
MaxAttempts == 2

\* Draws of random.uniform(-jitter_amount, jitter_amount): both ends and the middle.
JitterDraws == {-1, 0, 1}

VARIABLES
    pc,             \* pc[c]: the await the session is suspended at, or "done"
    attempts,       \* reconnect_manager.attempts
    delay,          \* the delay being slept (0 when not sleeping)
    wsOpen,         \* the session holds a transport connection not yet closed
    pending,        \* what is in flight through the finally block while closing
    cancelPending,  \* task.cancel() was called and CancelledError is not yet raised
    lastState,      \* history: the last state the session published
    cycleEnd,       \* history: how the latest connection cycle ended
    backoff,        \* history: next_delay calls, delay and time slept since cycleEnd
    cancelledAt,    \* history: the await at which CancelledError was first raised
    lastRecv,       \* history: class of the message the latest step received
    published,      \* the MQTT publications of the latest step, in order
    discovered_fields, \* the module-level set of fields logged as new
    announced,      \* history: how often each field was logged as new
    call,           \* a function called by itself: its name and arguments
    returned,       \* what that call returned, once it has returned
    mainPc,         \* the await main() is suspended at, or "finished"
    mainCancelPending,
    mqttConnected,  \* the MQTT client is connected (loop running)
    disconnects,    \* history: calls of mqtt_handler.disconnect()
    supCancelled,   \* history: sessions main's cancel loop called cancel() on
    waitEnd,        \* history: how main left asyncio.wait
    cancelLoopRan,  \* history: main ran its cancel loop
    service         \* the Windows service object, its threads and subprocesses

sessionVars == <<pc, attempts, delay, wsOpen, pending, lastState, cycleEnd,
                 backoff, cancelledAt, lastRecv, discovered_fields, announced>>
mainVars == <<mainPc, mainCancelPending, mqttConnected, disconnects, waitEnd,
              cancelLoopRan, supCancelled>>
\* What is outside the running bridge: a function called by itself, and the
\* service wrapper.
callVars == <<call, returned, service>>
bridgeVars == <<pc, attempts, delay, wsOpen, pending, cancelPending, lastState,
                cycleEnd, backoff, cancelledAt, lastRecv, published, mainPc,
                mainCancelPending, mqttConnected, disconnects, supCancelled,
                waitEnd, cancelLoopRan, service>>
vars == <<pc, attempts, delay, wsOpen, pending, cancelPending, lastState,
          cycleEnd, backoff, cancelledAt, lastRecv, published, mainPc,
          mainCancelPending, mqttConnected, disconnects, supCancelled, waitEnd,
          cancelLoopRan, discovered_fields, announced, call, returned,
          service>>

Min(a, b) == IF a < b THEN a ELSE b
Max(a, b) == IF a > b THEN a ELSE b

RECURSIVE Pow2(_)
Pow2(n) == IF n <= 0 THEN 1 ELSE 2 * Pow2(n - 1)

----------------------------------------------------------------------------
\* Text.  A Python str whose characters the code inspects is a sequence of
\* one-character strings; Text(cs) is the same text as one string.

UpperSeq == <<"A", "B", "C", "D", "E", "F", "G", "H", "I", "J", "K", "L", "M",
              "N", "O", "P", "Q", "R", "S", "T", "U", "V", "W", "X", "Y", "Z">>
LowerSeq == <<"a", "b", "c", "d", "e", "f", "g", "h", "i", "j", "k", "l", "m",
              "n", "o", "p", "q", "r", "s", "t", "u", "v", "w", "x", "y", "z">>
DigitSeq == <<"0", "1", "2", "3", "4", "5", "6", "7", "8", "9">>

Range(f) == {f[i] : i \in DOMAIN f}
UpperCh == Range(UpperSeq)
LowerCh == Range(LowerSeq)
DigitCh == Range(DigitSeq)
SpaceCh == {" "}

RECURSIVE Text(_)
Text(cs) == IF Len(cs) = 0 THEN "" ELSE Head(cs) \o Text(Tail(cs))

\* str.lower() of one character
LowerOf(ch) ==
    IF ch \in UpperCh
    THEN LowerSeq[CHOOSE i \in DOMAIN UpperSeq : UpperSeq[i] = ch]
    ELSE ch

\* s.startswith(prefix)
StartsWith(cs, prefix) ==
    /\ Len(cs) >= Len(prefix)
    /\ SubSeq(cs, 1, Len(prefix)) = prefix

\* s[n:]
DropFirst(cs, n) == SubSeq(cs, n + 1, Len(cs))

\* not key.strip(): the key is empty or all whitespace
IsBlank(cs) == \A i \in DOMAIN cs : cs[i] \in SpaceCh

\* cs with an underscore put before every position of at.
RECURSIVE WithUnderscores(_, _, _)
WithUnderscores(cs, at, i) ==
    IF i > Len(cs) THEN <<>>
    ELSE (IF i \in at THEN <<"_", cs[i]>> ELSE <<cs[i]>>)
         \o WithUnderscores(cs, at, i + 1)

AcronymBreaksNone(cs) == {}

\* re.sub(r'([A-Z][A-Z]+)([A-Z][a-z])', r'\1_\2', name): the last capital of
\* a run of three or more capitals that a lowercase letter follows.
AcronymBreaks(cs) ==
    {i \in 3..(Len(cs) - 1) :
        /\ cs[i - 2] \in UpperCh /\ cs[i - 1] \in UpperCh /\ cs[i] \in UpperCh
        /\ cs[i + 1] \in LowerCh}

\* re.sub(r'([a-z0-9])([A-Z])', r'\1_\2', s1): a capital after a lowercase
\* letter or a digit.
CamelBreaks(cs) ==
    {i \in 2..Len(cs) :
        cs[i - 1] \in (LowerCh \cup DigitCh) /\ cs[i] \in UpperCh}

\* camel_to_snake(name)
camel_to_snake(cs) ==
    LET s1 == WithUnderscores(cs, AcronymBreaks(cs), 1)
        s2 == WithUnderscores(s1, CamelBreaks(s1), 1)
    IN [i \in DOMAIN s2 |-> LowerOf(s2[i])]

----------------------------------------------------------------------------
\* Python values.  ty is the type; h is the number in hundredths (a bool is
\* the int 0 or 1); cs is the text of a str.  Numbers are taken with at most
\* two decimals, so round(x, 2) of an input is the input itself; the
\* conversions below round their own results.

PyNone == [ty |-> "none", h |-> 0, cs |-> <<>>]
PyBool(b) == [ty |-> "bool", h |-> IF b THEN 100 ELSE 0, cs |-> <<>>]
PyInt(n) == [ty |-> "int", h |-> n * 100, cs |-> <<>>]
PyFloat(h) == [ty |-> "float", h |-> h, cs |-> <<>>]
PyStr(cs) == [ty |-> "str", h |-> 0, cs |-> cs]
\* A non-empty JSON object / array whose content the code does not inspect.
PyDict == [ty |-> "dict", h |-> 0, cs |-> <<>>]
PyList == [ty |-> "list", h |-> 0, cs |-> <<>>]

\* value is None or value == ""
IsNoneOrEmpty(v) == v.ty = "none" \/ (v.ty = "str" /\ Len(v.cs) = 0)

Abs(n) == IF n < 0 THEN -n ELSE n

\* q + r / d rounded to the nearest integer, ties to even (0 <= r < d).
RoundNearest(q, r, d) ==
    IF 2 * r > d \/ (2 * r = d /\ q % 2 = 1) THEN q + 1 ELSE q

\* n / d rounded to the nearest integer, ties to even (d > 0).
RoundDiv(n, d) ==
    IF n < 0 THEN -RoundNearest((-n) \div d, (-n) % d, d)
    ELSE RoundNearest(n \div d, n % d, d)

\* Truncation toward zero of a number in hundredths, as a whole number.
Trunc(h) == IF h < 0 THEN -((-h) \div 100) ELSE h \div 100

DigitVal(ch) == (CHOOSE i \in DOMAIN DigitSeq : DigitSeq[i] = ch) - 1

RECURSIVE DigitsVal(_)
DigitsVal(cs) ==
    IF Len(cs) = 0 THEN 0
    ELSE 10 * DigitsVal(SubSeq(cs, 1, Len(cs) - 1)) + DigitVal(cs[Len(cs)])

RECURSIVE NatChars(_)
NatChars(n) ==
    IF n < 10 THEN <<DigitSeq[n + 1]>>
    ELSE NatChars(n \div 10) \o <<DigitSeq[(n % 10) + 1]>>

\* The text of a decimal number: sign, digits, and at most two decimals.
\* ok: float() accepts it; int_ok: int() accepts it; h: its value.
Magnitude(whole, frac) ==
    100 * DigitsVal(whole) + (IF Len(frac) = 1 THEN 10 ELSE 1) * DigitsVal(frac)

Parsed(ok, dotted, negative, mag) ==
    [ok |-> ok, int_ok |-> ok /\ ~dotted,
     h |-> IF ~ok THEN 0 ELSE IF negative THEN -mag ELSE mag]

ParseParts(negative, body, dots, whole, frac) ==
    Parsed(/\ Cardinality(dots) <= 1
           /\ \A i \in DOMAIN body : body[i] \in DigitCh \cup {"."}
           /\ Len(whole) + Len(frac) > 0
           /\ Len(frac) <= 2,
           dots # {}, negative, Magnitude(whole, frac))

ParseSplit(negative, body, dots, dot) ==
    ParseParts(negative, body, dots, SubSeq(body, 1, dot - 1),
               SubSeq(body, dot + 1, Len(body)))

ParseBody(negative, body, dots) ==
    ParseSplit(negative, body, dots,
               IF dots = {} THEN Len(body) + 1 ELSE CHOOSE i \in dots : TRUE)

ParseSigned(negative, body) ==
    ParseBody(negative, body, {i \in DOMAIN body : body[i] = "."})

ParseDecimal(cs) ==
    IF Len(cs) > 0 /\ cs[1] \in {"-", "+"}
    THEN ParseSigned(cs[1] = "-", Tail(cs))
    ELSE ParseSigned(FALSE, cs)

\* float(value) and int(value) of a str
FloatOfText(p) == [ok |-> p.ok, h |-> p.h]
IntOfText(p) == [ok |-> p.int_ok, n |-> Trunc(p.h)]

\* float(value): ok is FALSE where Python raises ValueError or TypeError.
FloatOf(v) ==
    CASE v.ty \in {"bool", "int", "float"} -> [ok |-> TRUE, h |-> v.h]
      [] v.ty = "str" -> FloatOfText(ParseDecimal(v.cs))
      [] OTHER -> [ok |-> FALSE, h |-> 0]

\* int(value)
IntOf(v) ==
    CASE v.ty \in {"bool", "int", "float"} -> [ok |-> TRUE, n |-> Trunc(v.h)]
      [] v.ty = "str" -> IntOfText(ParseDecimal(v.cs))
      [] OTHER -> [ok |-> FALSE, n |-> 0]

\* bool(value)
Truthy(v) ==
    CASE v.ty \in {"bool", "int", "float"} -> v.h # 0
      [] v.ty = "str" -> Len(v.cs) > 0
      [] v.ty = "none" -> FALSE
      [] OTHER -> TRUE

SignChars(h) == IF h < 0 THEN <<"-">> ELSE <<>>

TwoDigits(n) == <<DigitSeq[(n \div 10) + 1], DigitSeq[(n % 10) + 1]>>

\* f"{value:.2f}"
Fixed2(h) ==
    SignChars(h) \o NatChars(Abs(h) \div 100) \o <<".">>
    \o TwoDigits(Abs(h) % 100)

\* str(value) of a float: the shortest text, at least one decimal.
Decimals(f) ==
    IF f % 10 = 0 THEN <<DigitSeq[(f \div 10) + 1]>> ELSE TwoDigits(f)

FloatStr(h) ==
    SignChars(h) \o NatChars(Abs(h) \div 100) \o <<".">> \o Decimals(Abs(h) % 100)

\* str(value)
StrOf(v) ==
    CASE v.ty = "none" -> <<"N", "o", "n", "e">>
      [] v.ty = "bool" -> IF v.h # 0 THEN <<"T", "r", "u", "e">>
                          ELSE <<"F", "a", "l", "s", "e">>
      [] v.ty = "int" -> SignChars(v.h) \o NatChars(Abs(v.h) \div 100)
      [] v.ty = "float" -> FloatStr(v.h)
      [] v.ty = "str" -> v.cs
      [] v.ty = "dict" -> <<"{", ".", "}">>
      [] v.ty = "list" -> <<"[", ".", "]">>

\* json.dumps(value)
JsonDumps(v) ==
    CASE v.ty = "none" -> <<"n", "u", "l", "l">>
      [] v.ty = "bool" -> IF v.h # 0 THEN <<"t", "r", "u", "e">>
                          ELSE <<"f", "a", "l", "s", "e">>
      [] v.ty = "str" -> <<"\"">> \o v.cs \o <<"\"">>
      [] OTHER -> StrOf(v)

----------------------------------------------------------------------------
\* Conversion functions and field categories

\* round(h * 1.60934) for h in hundredths.  1.60934 = 80467 / 50000, and
\* with |h| = 50000 * q + r the product is 80467 * q + r + r * 30467 / 50000,
\* which keeps every intermediate value within 32 bits.
MilesFactorParts(q, r) ==
    RoundNearest(80467 * q + r + (r * 30467) \div 50000, (r * 30467) % 50000,
                 50000)

TimesMilesFactor(h) ==
    IF h < 0 THEN -MilesFactorParts((-h) \div 50000, (-h) % 50000)
    ELSE MilesFactorParts(h \div 50000, h % 50000)

\* The result of a conversion from the float() of its argument.
KmOf(f) == IF f.ok THEN PyFloat(TimesMilesFactor(f.h)) ELSE PyNone
CelsiusOf(f) == IF f.ok THEN PyFloat(RoundDiv((f.h - 3200) * 5, 9)) ELSE PyNone

\* An int beyond the range of a float (more than 308 digits): float() of it
\* raises OverflowError, which is neither ValueError nor TypeError.  The
\* readings of the sessions and of process_field hold no such integer.
PyHugeInt == [ty |-> "hugeint", h |-> 0, cs |-> <<>>]

\* In place of a returned value: the call raised OverflowError.
PyOverflowError == [ty |-> "raised", h |-> 0, cs |-> <<>>]

\* miles_to_km(miles): round(float(miles) * 1.60934, 2), or None; the
\* except clause catches ValueError and TypeError only.
miles_to_km(v) ==
    IF IsNoneOrEmpty(v) THEN PyNone
    ELSE IF v = PyHugeInt THEN PyOverflowError
    ELSE KmOf(FloatOf(v))

\* fahrenheit_to_celsius(f): round((float(f) - 32) * 5/9, 2), or None
fahrenheit_to_celsius(v) ==
    IF IsNoneOrEmpty(v) THEN PyNone
    ELSE IF v = PyHugeInt THEN PyOverflowError
    ELSE CelsiusOf(FloatOf(v))

F_EstBatteryRange == <<"E", "s", "t", "B", "a", "t", "t", "e", "r", "y", "R", "a", "n", "g", "e">>
F_IdealBatteryRange == <<"I", "d", "e", "a", "l", "B", "a", "t", "t", "e", "r", "y", "R", "a", "n", "g", "e">>
F_RatedRange == <<"R", "a", "t", "e", "d", "R", "a", "n", "g", "e">>
F_RangeDisplay == <<"R", "a", "n", "g", "e", "D", "i", "s", "p", "l", "a", "y">>
F_MilesToArrival == <<"M", "i", "l", "e", "s", "T", "o", "A", "r", "r", "i", "v", "a", "l">>
F_MilesRemaining == <<"M", "i", "l", "e", "s", "R", "e", "m", "a", "i", "n", "i", "n", "g">>
F_Odometer == <<"O", "d", "o", "m", "e", "t", "e", "r">>
F_ChargeRateMilePerHour == <<"C", "h", "a", "r", "g", "e", "R", "a", "t", "e", "M", "i", "l", "e", "P", "e", "r", "H", "o", "u", "r">>
F_DistanceToArrival == <<"D", "i", "s", "t", "a", "n", "c", "e", "T", "o", "A", "r", "r", "i", "v", "a", "l">>
F_VehicleSpeed == <<"V", "e", "h", "i", "c", "l", "e", "S", "p", "e", "e", "d">>
F_CruiseSetSpeed == <<"C", "r", "u", "i", "s", "e", "S", "e", "t", "S", "p", "e", "e", "d">>
F_CurrentLimitMph == <<"C", "u", "r", "r", "e", "n", "t", "L", "i", "m", "i", "t", "M", "p", "h">>
F_SpeedLimit == <<"S", "p", "e", "e", "d", "L", "i", "m", "i", "t">>
F_SpeedLimitDisplay == <<"S", "p", "e", "e", "d", "L", "i", "m", "i", "t", "D", "i", "s", "p", "l", "a", "y">>
F_SpeedLimitMode == <<"S", "p", "e", "e", "d", "L", "i", "m", "i", "t", "M", "o", "d", "e">>
F_OutsideTemp == <<"O", "u", "t", "s", "i", "d", "e", "T", "e", "m", "p">>
F_InsideTemp == <<"I", "n", "s", "i", "d", "e", "T", "e", "m", "p">>
F_Location == <<"L", "o", "c", "a", "t", "i", "o", "n">>
F_DestinationLocation == <<"D", "e", "s", "t", "i", "n", "a", "t", "i", "o", "n", "L", "o", "c", "a", "t", "i", "o", "n">>
F_OriginLocation == <<"O", "r", "i", "g", "i", "n", "L", "o", "c", "a", "t", "i", "o", "n">>

DISTANCE_FIELDS ==
    (F_EstBatteryRange :> "battery_range_estimated_km")
    @@ (F_IdealBatteryRange :> "battery_range_ideal_km")
    @@ (F_RatedRange :> "battery_range_rated_km")
    @@ (F_RangeDisplay :> "battery_range_display_km")
    @@ (F_MilesToArrival :> "navigation_distance_remaining_km")
    @@ (F_MilesRemaining :> "navigation_distance_remaining_km")
    @@ (F_Odometer :> "odometer_km")
    @@ (F_ChargeRateMilePerHour :> "charge_rate_kmh")
    @@ (F_DistanceToArrival :> "navigation_distance_remaining_km")

SPEED_FIELDS ==
    (F_VehicleSpeed :> "speed_kmh")
    @@ (F_CruiseSetSpeed :> "cruise_speed_kmh")
    @@ (F_CurrentLimitMph :> "speed_limit_kmh")
    @@ (F_SpeedLimit :> "speed_limit_kmh")
    @@ (F_SpeedLimitDisplay :> "speed_limit_display_kmh")
    @@ (F_SpeedLimitMode :> "speed_limit_mode_kmh")

TEMPERATURE_FIELDS == {F_OutsideTemp, F_InsideTemp}
LOCATION_FIELDS == {F_Location, F_DestinationLocation, F_OriginLocation}

----------------------------------------------------------------------------
\* TeslaMetricConverter.  A converter is its field_mappings (field -> topic),
\* field_types (field -> type) and field_categories, which is written and
\* never read.

\* _set_default_mappings: the converter built when the metadata file is
\* missing or unreadable.
DefaultMappings ==
    [field_mappings |->
        DISTANCE_FIELDS @@ SPEED_FIELDS
        @@ [f \in LOCATION_FIELDS \cup TEMPERATURE_FIELDS |->
                Text(camel_to_snake(f))],
     field_types |->
        [f \in (DOMAIN DISTANCE_FIELDS) \cup (DOMAIN SPEED_FIELDS) |-> "real"]
        @@ [f \in LOCATION_FIELDS |-> "object"]
        @@ [f \in TEMPERATURE_FIELDS |-> "real"],
     field_categories |->
        [f \in DOMAIN DISTANCE_FIELDS |-> "distance"]
        @@ [f \in DOMAIN SPEED_FIELDS |-> "speed"]
        @@ [f \in LOCATION_FIELDS |-> "location"]
        @@ [f \in TEMPERATURE_FIELDS |-> "temperature"]]

\* get_mqtt_topic: the topic, and the discovered-field set it leaves behind.
get_mqtt_topicForgettingSeen(conv, seen, field_name) ==
    IF field_name \in DOMAIN conv.field_mappings
    THEN [topic |-> conv.field_mappings[field_name],
          discovered_fields |-> seen, is_new |-> FALSE]
    ELSE [topic |-> Text(camel_to_snake(field_name)),
          discovered_fields |-> seen \cup {field_name}, is_new |-> TRUE]

get_mqtt_topicRawOnceSeen(conv, seen, field_name) ==
    IF field_name \in DOMAIN conv.field_mappings
    THEN [topic |-> conv.field_mappings[field_name],
          discovered_fields |-> seen, is_new |-> FALSE]
    ELSE [topic |-> IF field_name \in seen THEN Text(field_name)
                    ELSE Text(camel_to_snake(field_name)),
          discovered_fields |->
              IF field_name \notin seen THEN seen \cup {field_name} ELSE seen,
          is_new |-> field_name \notin seen]

\* is_new: the call logged the field as a new sensor.
get_mqtt_topic(conv, seen, field_name) ==
    IF field_name \in DOMAIN conv.field_mappings
    THEN [topic |-> conv.field_mappings[field_name],
          discovered_fields |-> seen, is_new |-> FALSE]
    ELSE [topic |-> Text(camel_to_snake(field_name)),
          discovered_fields |->
              IF field_name \notin seen THEN seen \cup {field_name} ELSE seen,
          is_new |-> field_name \notin seen]

\* The log of new sensors: how often each field was logged.
NoneAnnounced == [f \in {} |-> 0]
AnnouncedOnce(fields) == [f \in fields |-> 1]
Announce(log, fields) ==
    [f \in (DOMAIN log) \cup fields |->
        (IF f \in DOMAIN log THEN log[f] ELSE 0) + (IF f \in fields THEN 1 ELSE 0)]

LowerText(cs) == [i \in DOMAIN cs |-> LowerOf(cs[i])]

TrueWords == {<<"t", "r", "u", "e">>, <<"1">>, <<"y", "e", "s">>}

\* '.' in str(value)
Dotted(cs) == \E i \in DOMAIN cs : cs[i] = "."

\* The value of a conversion from the float() or int() of its argument,
\* with what is returned when that raises ValueError or TypeError.
FloatOr(f, otherwise) == IF f.ok THEN PyFloat(f.h) ELSE otherwise
IntOr(n, otherwise) == IF n.ok THEN PyInt(n.n) ELSE otherwise
TruncatedOr(f, otherwise) == IF f.ok THEN PyInt(Trunc(f.h)) ELSE otherwise

\* convert_value, the branch for a field without a type.
ConvertUntyped(value) ==
    IF value.ty \in {"dict", "list"} THEN value
    ELSE IF Dotted(StrOf(value)) THEN FloatOr(FloatOf(value), value)
    ELSE IntOr(IntOf(value), value)

\* convert_value, the branches by field type.
ConvertTyped(field_type, value) ==
    CASE field_type = "real" -> FloatOr(FloatOf(value), PyNone)
      [] field_type = "integer" -> TruncatedOr(FloatOf(value), PyNone)
      [] field_type = "boolean" ->
            IF value.ty = "bool" THEN value
            ELSE IF value.ty = "str"
            THEN PyBool(LowerText(value.cs) \in TrueWords)
            ELSE PyBool(Truthy(value))
      [] OTHER -> PyStr(StrOf(value))

\* convert_value(field_name, value)
convert_value(conv, field_name, value) ==
    IF IsNoneOrEmpty(value) THEN PyNone
    ELSE IF field_name \notin DOMAIN conv.field_types
    THEN ConvertUntyped(value)
    ELSE ConvertTyped(conv.field_types[field_name], value)

\* format_value(field_name, value)
format_valueWithoutNoneCheck(field_name, value) ==
    IF field_name \in LOCATION_FIELDS /\ value.ty = "dict"
    THEN JsonDumps(value)
    ELSE IF value.ty = "float" THEN Fixed2(value.h)
    ELSE StrOf(value)

format_value(field_name, value) ==
    IF value.ty = "none" THEN <<>>
    ELSE IF field_name \in LOCATION_FIELDS /\ value.ty = "dict"
    THEN JsonDumps(value)
    ELSE IF value.ty = "float" THEN Fixed2(value.h)
    ELSE StrOf(value)

\* A value object: shape "dict" with the members in tags (member -> value)
\* and invalid as "absent", "true" or "other"; shape "number" for a JSON
\* number in its place, on which the membership test raises TypeError.
ValueObj(invalid, tags) == [shape |-> "dict", invalid |-> invalid, tags |-> tags]
NoTags == [tag \in {} |-> PyNone]
NumberObj == [shape |-> "number", invalid |-> "absent", tags |-> NoTags]

FieldResult(topic, formatted, seen) ==
    [raised |-> FALSE, topic |-> topic, formatted_value |-> formatted,
     discovered_fields |-> seen]
FieldRaised(seen) ==
    [raised |-> TRUE, topic |-> "", formatted_value |-> <<>>,
     discovered_fields |-> seen]

ShiftStatePrefix == <<"S", "h", "i", "f", "t", "S", "t", "a", "t", "e">>

Above50OrEqual(v) == v.ty \in {"bool", "int", "float"} /\ v.h >= 5000

\* isinstance(raw_value, (int, float)) and raw_value > 50
Above50(v) == v.ty \in {"bool", "int", "float"} /\ v.h > 5000

\* process_field, from the raw value on: unit conversion and formatting.
ConvertedTopicAsDerived(field_name, topic) == topic

ConvertedTopic(field_name, topic) ==
    IF field_name \in DOMAIN DISTANCE_FIELDS THEN DISTANCE_FIELDS[field_name]
    ELSE IF field_name \in DOMAIN SPEED_FIELDS THEN SPEED_FIELDS[field_name]
    ELSE topic

ConvertedValue(field_name, raw_value) ==
    IF field_name \in (DOMAIN DISTANCE_FIELDS) \cup (DOMAIN SPEED_FIELDS)
    THEN miles_to_km(raw_value)
    ELSE IF field_name \in TEMPERATURE_FIELDS /\ Above50(raw_value)
    THEN fahrenheit_to_celsius(raw_value)
    ELSE raw_value

ApplyConversions(field_name, topic, raw_value, seen) ==
    FieldResult(ConvertedTopic(field_name, topic),
                format_value(field_name, ConvertedValue(field_name, raw_value)),
                seen)

\* The members convert_value is applied to, and the one the elif chain
\* takes: stringValue, doubleValue and intValue come before boolValue,
\* numberValue after it.
FirstPresent(present) ==
    IF "stringValue" \in present THEN "stringValue"
    ELSE IF "doubleValue" \in present THEN "doubleValue"
    ELSE IF "intValue" \in present THEN "intValue"
    ELSE IF "boolValue" \in present THEN "boolValue"
    ELSE IF "numberValue" \in present THEN "numberValue"
    ELSE "none"

\* state_value[10:] when state_value.startswith("ShiftState")
ShiftStateOf(cs) ==
    IF StartsWith(cs, ShiftStatePrefix) THEN DropFirst(cs, 10) ELSE cs

\* The raw value of a member other than locationValue and shiftStateValue.
RawValue(conv, field_name, tag, value) ==
    IF tag = "boolValue" THEN PyBool(Truthy(value))
    ELSE convert_value(conv, field_name, value)

\* process_field after the invalid check, with the member the chain takes.
ExtractValue(conv, field_name, tags, tag, topic, seen) ==
    IF "locationValue" \in DOMAIN tags /\ field_name \in LOCATION_FIELDS
    THEN FieldResult(topic, JsonDumps(tags["locationValue"]), seen)
    ELSE IF "shiftStateValue" \in DOMAIN tags
    THEN IF tags["shiftStateValue"].ty # "str" THEN FieldRaised(seen)
         ELSE ApplyConversions(field_name, topic,
                  PyStr(ShiftStateOf(tags["shiftStateValue"].cs)), seen)
    ELSE IF tag = "none" THEN FieldResult(topic, <<>>, seen)
    ELSE ApplyConversions(field_name, topic,
             RawValue(conv, field_name, tag, tags[tag]), seen)

\* process_field with the result of get_mqtt_topic.
ProcessWithTopicIgnoringInvalid(conv, field_name, value_obj, t) ==
    IF value_obj.shape # "dict" THEN FieldRaised(t.discovered_fields)
    ELSE ExtractValue(conv, field_name, value_obj.tags,
                      FirstPresent(DOMAIN value_obj.tags), t.topic,
                      t.discovered_fields)

ProcessWithTopic(conv, field_name, value_obj, t) ==
    IF value_obj.shape # "dict" THEN FieldRaised(t.discovered_fields)
    ELSE IF value_obj.invalid = "true"
    THEN FieldResult(t.topic, <<>>, t.discovered_fields)
    ELSE ExtractValue(conv, field_name, value_obj.tags,
                      FirstPresent(DOMAIN value_obj.tags), t.topic,
                      t.discovered_fields)

\* process_field(field_name, value_obj)
process_field(conv, seen, field_name, value_obj) ==
    ProcessWithTopic(conv, field_name, value_obj,
                     get_mqtt_topic(conv, seen, field_name))

\* The converter main() builds with TeslaMetricConverter(): the repository
\* ships no fleet_streaming_fields.csv beside the script.
tesla_converter == DefaultMappings

----------------------------------------------------------------------------
\* MQTTHandler

\* MQTT_TOPIC_PREFIX, the default of the environment variable.
MQTT_TOPIC_PREFIX == "myteslamate/cars"

\* f"{self.topic_prefix}/{car_num}/{topic}": the three parts "/" joins.
FullTopic(car_num, topic) == <<MQTT_TOPIC_PREFIX, ToString(car_num), topic>>

\* publish(car_num, topic, value): what the client is handed (full_topic,
\* value) and the arguments of the call (car, topic).
publish(c, topic, value) ==
    [car |-> c, topic |-> topic, value |-> value,
     full_topic |-> FullTopic(c, topic)]

\* publish_state(car_num, state)
publish_stateAsFirstCar(c, state) == publish(1, "state", state)
publish_state(c, state) == publish(c, "state", state)

StatesIn(pubs, c) ==
    SelectSeq(pubs, LAMBDA p : p.car = c /\ p.topic = "state")

\* The last state car c publishes in pubs, or old when it publishes none.
LastStateAfter(old, pubs, c) ==
    LET s == StatesIn(pubs, c)
    IN IF Len(s) = 0 THEN old ELSE s[Len(s)].value

----------------------------------------------------------------------------
\* ReconnectionManager

\* reset()
reset == 0

NominalDelayUncapped(att) == BaseDelay * Pow2(att - 1)

\* The jitter-free delay of the att-th consecutive attempt, in seconds.
NominalDelay(att) == Min(BaseDelay * Pow2(att - 1), MaxDelay)

next_delayWithoutFloor(att, j) ==
    LET a == att + 1
        d == NominalDelay(a) * 100
        jitter_amount == (d * JitterPercent) \div 100
    IN [attempts |-> a, delay |-> d + j * jitter_amount]

\* next_delay() with att the attempt counter before the call and j the
\* jitter draw: the new counter and the returned delay (hundredths of a second).
next_delay(att, j) ==
    LET a == att + 1
        d == NominalDelay(a) * 100
        jitter_amount == (d * JitterPercent) \div 100
    IN [attempts |-> a, delay |-> Max(BaseDelay * 100, d + j * jitter_amount)]

----------------------------------------------------------------------------
\* Inbound messages, by the shape json.loads gives them.
\*   parse:    "invalid" (json.loads raises JSONDecodeError), "undecodable"
\*             (json.loads raises another exception: UnicodeDecodeError for a
\*             binary frame that is not UTF-8, RecursionError for nesting
\*             beyond the recursion limit), "nonobject" (JSON, but no
\*             object), "object"
\*   error:    "absent", "notobject" (an error member that is no object), or
\*             the value of error.type ("unknown" when it has none)
\*   msg_type: "absent", "nonstring", or the string
\*   data:     "absent", "notlist" or "list"
\*   vin:      "absent" or the string
Msg(parse, error, msg_type, data, vin) ==
    [parse |-> parse, error |-> error, msg_type |-> msg_type, data |-> data,
     vin |-> vin]

\* An element of data["data"]: an object with "key" and "value", an object
\* lacking one of them, or a JSON number (the membership test raises).
Item(key, value_obj) == [shape |-> "entry", key |-> key, value |-> value_obj]
ItemWithoutKey == [shape |-> "partial", key |-> PyNone, value |-> NumberObj]
ItemNumber == [shape |-> "number", key |-> PyNone, value |-> NumberObj]

One(tag, value) == ValueObj("absent", tag :> value)

F_Gear == <<"G", "e", "a", "r">>
F_Soc == <<"S", "o", "c">>

\* 60.0 mph, then readings of two fields no table knows.
SpeedAndNewFields ==
    <<Item(PyStr(F_VehicleSpeed), One("doubleValue", PyFloat(6000))),
      Item(PyStr(F_Soc), One("stringValue", PyStr(<<"1", "2", ".", "5">>))),
      Item(PyStr(F_Gear),
           One("shiftStateValue", PyStr(ShiftStatePrefix \o <<"R">>)))>>

\* 72 degrees, then entries that publish nothing, then a location.
TempSkipsLocation ==
    <<Item(PyStr(F_InsideTemp), One("intValue", PyInt(72))),
      Item(PyStr(F_Odometer), ValueObj("true", "doubleValue" :> PyFloat(100))),
      Item(PyStr(<<" ">>), One("intValue", PyInt(1))),
      Item(PyInt(7), One("intValue", PyInt(1))),
      ItemWithoutKey,
      Item(PyStr(F_Gear), One("shiftStateValue", PyStr(ShiftStatePrefix))),
      Item(PyStr(F_Soc), One("stringValue", PyStr(<<>>))),
      Item(PyStr(F_Location), One("locationValue", PyDict))>>

\* A gear, then a value object the code cannot read, then a field never
\* reached.
GearThenUnreadable ==
    <<Item(PyStr(F_Gear),
           One("shiftStateValue", PyStr(ShiftStatePrefix \o <<"D">>))),
      Item(PyStr(F_Soc), NumberObj),
      Item(PyStr(F_Odometer), One("doubleValue", PyFloat(100)))>>

\* The "data" member: absent, a list, or something else.
NoData == [kind |-> "absent", list |-> <<>>]
DataList(items) == [kind |-> "list", list |-> items]
DataOther == [kind |-> "other", list |-> <<>>]

Messages ==
    { Msg("invalid", "absent", "absent", NoData, "absent"),
      Msg("undecodable", "absent", "absent", NoData, "absent"),
      Msg("nonobject", "absent", "absent", NoData, "absent"),
      Msg("object", "vehicle_disconnected", "absent", NoData, "absent"),
      Msg("object", "vehicle_offline", "absent", NoData, "absent"),
      Msg("object", "vehicle_offline", "control:hello",
          DataList(SpeedAndNewFields), "VIN1"),
      Msg("object", "unknown", "absent", NoData, "absent"),
      Msg("object", "rate_limited", "absent", DataList(<<>>), "absent"),
      Msg("object", "notobject", "absent", NoData, "absent"),
      Msg("object", "absent", "control:hello", NoData, "absent"),
      Msg("object", "absent", "control:hello",
          DataList(SpeedAndNewFields), "absent"),
      Msg("object", "absent", "nonstring", NoData, "absent"),
      Msg("object", "absent", "data:update", DataList(<<>>), "VIN1"),
      Msg("object", "absent", "data:update", DataList(SpeedAndNewFields),
          "absent"),
      Msg("object", "absent", "absent", DataList(TempSkipsLocation), "VIN1"),
      Msg("object", "absent", "absent", DataList(GearThenUnreadable), "VIN1"),
      Msg("object", "absent", "absent", DataList(<<>>), "absent"),
      Msg("object", "absent", "absent", DataOther, "VIN1"),
      Msg("object", "absent", "absent", NoData, "absent") }

\* The error types that end streaming.
StopTypesNoOffline == {"vehicle_disconnected"}
StopTypes == {"vehicle_disconnected", "vehicle_offline"}

\* "msg_type" in data and data["msg_type"].startswith("control:hello")
IsHello(msg_type) == msg_type = "control:hello"

\* "data" in data and isinstance(data["data"], list)
HasDataList(m) == m.data.kind = "list"

\* not isinstance(key, str) or not key.strip()
InvalidKey(key) == key.ty # "str" \/ IsBlank(key.cs)

\* The publication of a processed entry, if any.
FieldPublication(c, result) ==
    IF Len(result.formatted_value) > 0
    THEN <<publish(c, result.topic, Text(result.formatted_value))>>
    ELSE <<>>

LoopResult(pubs, raised, seen) ==
    [pubs |-> pubs, raised |-> raised, discovered_fields |-> seen]

PrependAfter(pubs, rest) == [rest EXCEPT !.pubs = @ \o pubs]
Prepend(pubs, rest) == [rest EXCEPT !.pubs = pubs \o @]

\* The for loop over data["data"] from its i-th element on: the
\* publications, whether an exception ended the loop, and the discovered
\* fields.
RECURSIVE ProcessItems(_, _, _, _, _)
AfterField(c, conv, items, i, result) ==
    IF result.raised
    THEN LoopResult(<<>>, TRUE, result.discovered_fields)
    ELSE Prepend(FieldPublication(c, result),
                 ProcessItems(c, conv, items, i + 1, result.discovered_fields))

ProcessItem(c, conv, items, i, item, seen) ==
    IF item.shape = "number" THEN LoopResult(<<>>, TRUE, seen)
    ELSE IF item.shape = "partial" \/ InvalidKey(item.key)
    THEN ProcessItems(c, conv, items, i + 1, seen)
    ELSE AfterField(c, conv, items, i,
                    process_field(conv, seen, item.key.cs, item.value))

ProcessItems(c, conv, items, i, seen) ==
    IF i > Len(items) THEN LoopResult(<<>>, FALSE, seen)
    ELSE ProcessItem(c, conv, items, i, items[i], seen)

Outcome(pubs, result, seen) ==
    [pubs |-> pubs, result |-> result, discovered_fields |-> seen]

\* The data branch after the loop: online, the fields, then the vin unless
\* an exception ended the loop.
AfterItems(c, m, fields) ==
    Outcome(<<publish_state(c, "online")>> \o fields.pubs
            \o (IF fields.raised \/ m.vin = "absent" THEN <<>>
                ELSE <<publish(c, "vin", m.vin)>>),
            "continue", fields.discovered_fields)

\* The data branch of process_vehicle_message.
DataPublications(c, conv, seen, m) ==
    AfterItems(c, m, ProcessItems(c, conv, m.data.list, 1, seen))

process_vehicle_messageErrorLast(c, conv, seen, m) ==
    IF m.parse = "invalid" THEN Outcome(<<>>, "continue", seen)
    ELSE IF m.parse = "undecodable" THEN Outcome(<<>>, "raise", seen)
    ELSE IF m.parse = "nonobject" THEN Outcome(<<>>, "raise", seen)
    ELSE IF m.msg_type = "nonstring" THEN Outcome(<<>>, "raise", seen)
    ELSE IF m.msg_type # "absent" /\ IsHello(m.msg_type)
    THEN Outcome(<<publish_state(c, "online")>>, "continue", seen)
    ELSE IF HasDataList(m) THEN DataPublications(c, conv, seen, m)
    ELSE IF m.error # "absent" THEN
        IF m.error = "notobject" THEN Outcome(<<>>, "raise", seen)
        ELSE IF m.error \in StopTypes
        THEN Outcome(<<publish_state(c, m.error)>>, "stop", seen)
        ELSE Outcome(<<>>, "continue", seen)
    ELSE Outcome(<<>>, "continue", seen)

\* process_vehicle_message: its publications, its result: "continue"
\* (returns True), "stop" (returns False) or "raise" (an exception leaves
\* it), and the discovered fields.
process_vehicle_message(c, conv, seen, m) ==
    IF m.parse = "invalid" THEN Outcome(<<>>, "continue", seen)
    ELSE IF m.parse = "undecodable" THEN Outcome(<<>>, "raise", seen)
    ELSE IF m.parse = "nonobject" THEN Outcome(<<>>, "raise", seen)
    ELSE IF m.error # "absent" THEN
        IF m.error = "notobject" THEN Outcome(<<>>, "raise", seen)
        ELSE IF m.error \in StopTypes
        THEN Outcome(<<publish_state(c, m.error)>>, "stop", seen)
        ELSE Outcome(<<>>, "continue", seen)
    ELSE IF m.msg_type = "nonstring" THEN Outcome(<<>>, "raise", seen)
    ELSE IF m.msg_type # "absent" /\ IsHello(m.msg_type)
    THEN Outcome(<<publish_state(c, "online")>>, "continue", seen)
    ELSE IF HasDataList(m) THEN DataPublications(c, conv, seen, m)
    ELSE Outcome(<<>>, "continue", seen)

\* History label of a received message: its error type when it is an error
\* frame with an object as error member, "other" otherwise.
RecvClass(m) ==
    IF m.parse = "object" /\ m.error \notin {"absent", "notobject"}
    THEN m.error ELSE "other"

----------------------------------------------------------------------------
\* handle_single_vin: the exception handlers

\* except asyncio.CancelledError: publish disconnected, re-raise.
ExceptCancelledSwallowed == [state |-> "disconnected", next |-> "connecting"]
ExceptCancelled == [state |-> "disconnected", next |-> "done"]

\* except asyncio.CancelledError around the backoff sleep: re-raise only.
SleepCancelled == [state |-> "none", next |-> "done"]

\* except Exception: one next_delay, publish error, sleep the delay.
ExceptExceptionNoSleep(att, j) ==
    LET nd == next_delay(att, j)
    IN [attempts |-> nd.attempts, delay |-> nd.delay, calls |-> 1,
        state |-> "error", next |-> "connecting"]
ExceptException(att, j) ==
    LET nd == next_delay(att, j)
    IN [attempts |-> nd.attempts, delay |-> nd.delay, calls |-> 1,
        state |-> "error", next |-> "sleeping"]

\* The session falls out of the try block without an exception: while True.
LoopAgain == "connecting"

NoBackoff == [calls |-> 0, delay |-> 0, slept |-> 0]

StatePubs(c, state) == IF state = "none" THEN <<>> ELSE <<publish_state(c, state)>>

StepSeenSharedManager(c, pcN, attN, delayN, wsN, pendN, endN, boN, recvN, pubs, seen) ==
    /\ pc' = [pc EXCEPT ![c] = pcN]
    /\ attempts' = [d \in Cars |-> IF pcN = "done" THEN 0 ELSE attN]
    /\ delay' = [delay EXCEPT ![c] = delayN]
    /\ wsOpen' = [wsOpen EXCEPT ![c] = wsN]
    /\ pending' = [pending EXCEPT ![c] = pendN]
    /\ cycleEnd' = [cycleEnd EXCEPT ![c] = IF pcN = "done" THEN "none" ELSE endN]
    /\ backoff' = [backoff EXCEPT ![c] = IF pcN = "done" THEN NoBackoff ELSE boN]
    /\ lastRecv' = [lastRecv EXCEPT ![c] = recvN]
    /\ lastState' = [lastState EXCEPT ![c] = LastStateAfter(@, pubs, c)]
    /\ published' = pubs
    /\ discovered_fields' = seen
    /\ announced' = Announce(announced, seen \ discovered_fields)
    /\ UNCHANGED mainVars
    /\ UNCHANGED callVars

\* One step of session c: the new value of each of its variables and what it
\* published.
\* When the task ends its frame is gone: the reconnect manager and the
\* history of its last cycle are dropped.
StepSeen(c, pcN, attN, delayN, wsN, pendN, endN, boN, recvN, pubs, seen) ==
    /\ pc' = [pc EXCEPT ![c] = pcN]
    /\ attempts' = [attempts EXCEPT ![c] = IF pcN = "done" THEN 0 ELSE attN]
    /\ delay' = [delay EXCEPT ![c] = delayN]
    /\ wsOpen' = [wsOpen EXCEPT ![c] = wsN]
    /\ pending' = [pending EXCEPT ![c] = pendN]
    /\ cycleEnd' = [cycleEnd EXCEPT ![c] = IF pcN = "done" THEN "none" ELSE endN]
    /\ backoff' = [backoff EXCEPT ![c] = IF pcN = "done" THEN NoBackoff ELSE boN]
    /\ lastRecv' = [lastRecv EXCEPT ![c] = recvN]
    /\ lastState' = [lastState EXCEPT ![c] = LastStateAfter(@, pubs, c)]
    /\ published' = pubs
    /\ discovered_fields' = seen
    /\ announced' = Announce(announced, seen \ discovered_fields)
    /\ UNCHANGED mainVars
    /\ UNCHANGED callVars

\* A step that processes no field.
Step(c, pcN, attN, delayN, wsN, pendN, endN, boN, recvN, pubs) ==
    StepSeen(c, pcN, attN, delayN, wsN, pendN, endN, boN, recvN, pubs,
             discovered_fields)

\* The task is resumed with a result: no cancel() is pending on it.
Resumes(c, at) == pc[c] = at /\ ~cancelPending[c]

\* The except Exception handler entered from the await of session c.
EnterExceptException(c, j, endN, calls0) ==
    LET h == ExceptException(attempts[c], j)
    IN Step(c, h.next, h.attempts,
            IF h.next = "sleeping" THEN h.delay ELSE 0,
            FALSE, "none", endN,
            [calls |-> calls0 + h.calls, delay |-> h.delay, slept |-> 0],
            "none", StatePubs(c, h.state))

----------------------------------------------------------------------------
\* handle_single_vin: the steps between awaits

ConnectOkOnline(c) ==
    /\ Resumes(c, "connecting")
    /\ Step(c, "sub_send", reset, 0, TRUE, "none", "none", NoBackoff,
            "none", <<publish_state(c, "online")>>)
    /\ UNCHANGED <<cancelPending, cancelledAt>>

\* create_tesla_websocket returns: reset, build the subscription, send it.
ConnectOk(c) ==
    /\ Resumes(c, "connecting")
    /\ Step(c, "sub_send", reset, 0, TRUE, "none", "none", NoBackoff,
            "none", <<>>)
    /\ UNCHANGED <<cancelPending, cancelledAt>>

\* create_tesla_websocket raises (it logs and re-raises every exception).
ConnectFail(c) ==
    /\ Resumes(c, "connecting")
    /\ attempts[c] < MaxAttempts
    /\ \E j \in JitterDraws : EnterExceptException(c, j, "connect_failed", 0)
    /\ UNCHANGED <<cancelPending, cancelledAt>>

\* websocket.send returns: wait for the confirmation, at most 10 s.
SendOk(c) ==
    /\ Resumes(c, "sub_send")
    /\ Step(c, "sub_wait", attempts[c], 0, TRUE, "none", "none", NoBackoff,
            "none", <<>>)
    /\ UNCHANGED <<cancelPending, cancelledAt>>

\* websocket.send raises: the finally block closes the connection.
SendFail(c) ==
    /\ Resumes(c, "sub_send")
    /\ Step(c, "closing", attempts[c], 0, TRUE, "error", "subscribe_failed",
            NoBackoff, "none", <<>>)
    /\ UNCHANGED <<cancelPending, cancelledAt>>

\* History label of the message taken as the subscription confirmation.
ConfirmationClass(m) == "confirmation_" \o RecvClass(m)

ConfirmedByClassified(c, m) ==
    LET r == process_vehicle_message(c, tesla_converter, discovered_fields, m)
    IN StepSeen(c, IF r.result = "continue" THEN "streaming" ELSE "closing",
                attempts[c], 0, TRUE,
                IF r.result = "raise" THEN "error" ELSE "none",
                IF r.result = "continue" THEN "none" ELSE "stop_streaming",
                NoBackoff, ConfirmationClass(m),
                <<publish_state(c, "online")>> \o r.pubs,
                r.discovered_fields)

\* subscribe_to_vehicle_data logs the response m and returns True; the
\* session publishes online and handle_websocket_messages starts receiving.
ConfirmedBy(c, m) ==
    Step(c, "streaming", attempts[c], 0, TRUE, "none", "none", NoBackoff,
         ConfirmationClass(m), <<publish_state(c, "online")>>)

\* A message arrives within the timeout: subscribe_to_vehicle_data returns
\* True whatever the message holds; publish online, start receiving.
SubscribeConfirmed(c) ==
    /\ Resumes(c, "sub_wait")
    /\ \E m \in Messages : ConfirmedBy(c, m)
    /\ UNCHANGED <<cancelPending, cancelledAt>>

\* asyncio.TimeoutError: subscribe_to_vehicle_data returns False, the if is
\* skipped and the finally block closes the connection.
SubscribeTimeout(c) ==
    /\ Resumes(c, "sub_wait")
    /\ Step(c, "closing", attempts[c], 0, TRUE, "none", "subscribe_timeout",
            NoBackoff, "none", <<>>)
    /\ UNCHANGED <<cancelPending, cancelledAt>>

\* websocket.recv raises while waiting for the confirmation.
SubscribeRecvFail(c) ==
    /\ Resumes(c, "sub_wait")
    /\ Step(c, "closing", attempts[c], 0, TRUE, "error", "subscribe_failed",
            NoBackoff, "none", <<>>)
    /\ UNCHANGED <<cancelPending, cancelledAt>>

\* handle_websocket_messages: one message received and processed.
Received(c, m, r) ==
    CASE r.result = "continue" ->
            StepSeen(c, "streaming", attempts[c], 0, TRUE, "none", "none",
                     NoBackoff, RecvClass(m), r.pubs, r.discovered_fields)
      [] r.result = "stop" ->
            StepSeen(c, "closing", attempts[c], 0, TRUE, "none",
                     "stop_streaming", NoBackoff, RecvClass(m), r.pubs,
                     r.discovered_fields)
      [] r.result = "raise" ->
            StepSeen(c, "closing", attempts[c], 0, TRUE, "error",
                     "stream_failed", NoBackoff, RecvClass(m), r.pubs,
                     r.discovered_fields)

\* One round of the while loop of handle_websocket_messages with m the
\* message websocket.recv() returns.
ReceiveThis(c, m) ==
    /\ Resumes(c, "streaming")
    /\ Received(c, m, process_vehicle_message(c, tesla_converter,
                                              discovered_fields, m))
    /\ UNCHANGED <<cancelPending, cancelledAt>>

ReceiveMessage(c) == \E m \in Messages : ReceiveThis(c, m)

\* handle_websocket_messages: websockets.ConnectionClosed.
ReceiveClosed(c) ==
    /\ Resumes(c, "streaming")
    /\ Step(c, "closing", attempts[c], 0, TRUE, "none", "transport_closed",
            NoBackoff, "none", <<publish_state(c, "disconnected")>>)
    /\ UNCHANGED <<cancelPending, cancelledAt>>

\* websocket.close() returns, or raises an Exception that is logged and
\* dropped; then whatever was in flight through the finally block goes on.
CloseDone(c) ==
    /\ Resumes(c, "closing")
    /\ CASE pending[c] = "none" ->
              Step(c, LoopAgain, attempts[c], 0, FALSE, "none", cycleEnd[c],
                   backoff[c], "none", <<>>)
         [] pending[c] = "error" ->
              \E j \in JitterDraws :
                  EnterExceptException(c, j, cycleEnd[c], backoff[c].calls)
         [] pending[c] = "cancel" ->
              Step(c, ExceptCancelled.next, attempts[c], 0, FALSE, "none",
                   cycleEnd[c], backoff[c], "none",
                   StatePubs(c, ExceptCancelled.state))
    /\ UNCHANGED <<cancelPending, cancelledAt>>

\* asyncio.sleep(delay) returns: next iteration of while True.
SleepDone(c) ==
    /\ Resumes(c, "sleeping")
    /\ Step(c, LoopAgain, attempts[c], 0, wsOpen[c], "none", cycleEnd[c],
            [backoff[c] EXCEPT !.slept = delay[c]], "none", <<>>)
    /\ UNCHANGED <<cancelPending, cancelledAt>>

\* The task is resumed with CancelledError raised at its await.
Cancelled(c) ==
    /\ cancelPending[c]
    /\ pc[c] # "done"
    /\ cancelPending' = [cancelPending EXCEPT ![c] = FALSE]
    /\ cancelledAt' = [cancelledAt EXCEPT
                          ![c] = IF @ = "none" THEN pc[c] ELSE @]
    /\ CASE pc[c] = "connecting" ->
              \* no except Exception catches it; the outer handler runs
              Step(c, ExceptCancelled.next, attempts[c], 0, wsOpen[c], "none",
                   cycleEnd[c], backoff[c], "none",
                   StatePubs(c, ExceptCancelled.state))
         [] pc[c] \in {"sub_send", "sub_wait", "streaming"} ->
              \* the finally block awaits websocket.close()
              Step(c, "closing", attempts[c], 0, wsOpen[c], "cancel",
                   cycleEnd[c], backoff[c], "none", <<>>)
         [] pc[c] = "closing" ->
              \* CancelledError leaves close(): except Exception lets it pass
              Step(c, ExceptCancelled.next, attempts[c], 0, wsOpen[c], "none",
                   cycleEnd[c], backoff[c], "none",
                   StatePubs(c, ExceptCancelled.state))
         [] pc[c] = "sleeping" ->
              Step(c, SleepCancelled.next, attempts[c], 0, wsOpen[c], "none",
                   cycleEnd[c], backoff[c], "none",
                   StatePubs(c, SleepCancelled.state))

----------------------------------------------------------------------------
\* main() and the process around it

NotDone == {c \in Cars : pc[c] # "done"}

\* for task in tasks: if not task.done(): task.cancel()
CancelLoopTargetsNone == {}
CancelLoopTargets == NotDone

\* asyncio.wait(tasks, timeout=5) has a timeout.
WaitHasNoTimeout == FALSE
WaitHasTimeout == TRUE

\* mqtt_handler.disconnect() in main's finally block; main returns.
Disconnect(how) ==
    /\ mqttConnected' = FALSE
    /\ disconnects' = disconnects + 1
    /\ waitEnd' = how
    /\ mainPc' = "finished"
    /\ published' = <<>>
    /\ UNCHANGED callVars

\* signal_handler: cancel every task of the loop, main and the sessions.
Signal ==
    /\ mainPc \in {"gather", "wait"}
    /\ cancelPending' = [c \in Cars |-> cancelPending[c] \/ pc[c] # "done"]
    /\ mainCancelPending' = TRUE
    /\ published' = <<>>
    /\ UNCHANGED callVars
    /\ UNCHANGED <<sessionVars, mainPc, mqttConnected, disconnects, waitEnd,
                   cancelLoopRan, supCancelled>>

\* CancelledError at await asyncio.gather: the cancel loop, then asyncio.wait.
MainCancelled ==
    /\ mainPc = "gather"
    /\ mainCancelPending
    /\ mainCancelPending' = FALSE
    /\ cancelPending' = [c \in Cars |->
                            cancelPending[c] \/ c \in CancelLoopTargets]
    /\ supCancelled' = supCancelled \cup CancelLoopTargets
    /\ cancelLoopRan' = TRUE
    /\ mainPc' = "wait"
    /\ published' = <<>>
    /\ UNCHANGED callVars
    /\ UNCHANGED <<sessionVars, mqttConnected, disconnects, waitEnd>>

\* asyncio.wait returns because every session task is done.
MainWaitDone ==
    /\ mainPc = "wait"
    /\ ~mainCancelPending
    /\ NotDone = {}
    /\ Disconnect("all_done")
    /\ UNCHANGED <<sessionVars, cancelPending, mainCancelPending,
                   cancelLoopRan, supCancelled>>

\* asyncio.wait returns because its timeout expired.
MainWaitTimeout ==
    /\ mainPc = "wait"
    /\ ~mainCancelPending
    /\ NotDone # {}
    /\ WaitHasTimeout
    /\ Disconnect("timeout")
    /\ UNCHANGED <<sessionVars, cancelPending, mainCancelPending,
                   cancelLoopRan, supCancelled>>

\* A further signal cancelled main inside asyncio.wait: CancelledError is no
\* Exception, it leaves the except block and the finally block runs.
MainWaitCancelled ==
    /\ mainPc = "wait"
    /\ mainCancelPending
    /\ mainCancelPending' = FALSE
    /\ Disconnect("cancelled")
    /\ UNCHANGED <<sessionVars, cancelPending, cancelLoopRan, supCancelled>>

\* asyncio.run after main is over: it cancels the tasks still pending and
\* runs the loop until they are done.
RunnerCancelsRest ==
    /\ mainPc = "finished"
    /\ mainPc' = "closed"
    /\ cancelPending' = [c \in Cars |-> cancelPending[c] \/ pc[c] # "done"]
    /\ published' = <<>>
    /\ UNCHANGED callVars
    /\ UNCHANGED <<sessionVars, mainCancelPending, mqttConnected, disconnects,
                   waitEnd, cancelLoopRan, supCancelled>>

----------------------------------------------------------------------------
\* final_service.py: TeslaMQTTService.  SvcDoRun runs on the service's main
\* thread, SvcStop on the thread of the control handler; a step is what one
\* thread does between two reads of the fields the other thread writes.

\* Bound on the subprocesses SvcDoRun starts.
MaxSpawns == 3

\* Every variable but service.
bridgeAndCall ==
    <<pc, attempts, delay, wsOpen, pending, cancelPending, lastState,
      cycleEnd, backoff, cancelledAt, lastRecv, published, mainPc,
      mainCancelPending, mqttConnected, disconnects, supCancelled, waitEnd,
      cancelLoopRan, discovered_fields, announced, call, returned>>

\* __init__: running is True, process is None (0), the event is not set.
\*   spawned: the subprocesses started so far, numbered 1..spawned
\*   live:    those of them that still run
\*   forced:  those SvcStop had to kill
\*   run, stop: where SvcDoRun and SvcStop are
TeslaMQTTService ==
    [running |-> TRUE, process |-> 0, hWaitStop |-> FALSE, spawned |-> 0,
     live |-> {}, forced |-> {}, run |-> "while_running", stop |-> "idle"]

ServiceStep(next) ==
    /\ service' = next
    /\ UNCHANGED bridgeAndCall

\* self.process.poll() is None
ProcessRuns == service.process \in service.live

\* while self.running: (line 42)
SvcDoRunWhileRunning ==
    /\ service.run = "while_running"
    /\ ServiceStep([service EXCEPT
           !.run = IF service.running THEN "popen" ELSE "returned"])

\* self.process = subprocess.Popen(...) (line 44)
SvcDoRunPopen ==
    /\ service.run = "popen"
    /\ service.spawned < MaxSpawns
    /\ ServiceStep([service EXCEPT
           !.spawned = @ + 1, !.process = service.spawned + 1,
           !.live = @ \cup {service.spawned + 1}, !.run = "poll"])

\* Popen raises: except Exception, if self.running: (60-61)
SvcDoRunPopenRaises ==
    /\ service.run = "popen"
    /\ ServiceStep([service EXCEPT
           !.run = IF service.running THEN "sleep" ELSE "while_running"])

\* time.sleep(5) returns (line 62).
SvcDoRunSleep ==
    /\ service.run = "sleep"
    /\ ServiceStep([service EXCEPT !.run = "while_running"])

\* while self.process.poll() is None and self.running: (line 47)
SvcDoRunPoll ==
    /\ service.run = "poll"
    /\ ServiceStep([service EXCEPT
           !.run = IF ProcessRuns /\ service.running
                   THEN "wait_stop" ELSE "if_not_running"])

\* WaitForSingleObject(hWaitStop, 1000): the event is set (and reset by the
\* wait, it is an auto-reset event) and the loop is left, or the second
\* passes and after sleep(0.1) the loop goes on (48-50).
SvcDoRunWaitStop ==
    /\ service.run = "wait_stop"
    /\ ServiceStep(IF service.hWaitStop
                   THEN [service EXCEPT !.hWaitStop = FALSE,
                                        !.run = "if_not_running"]
                   ELSE [service EXCEPT !.run = "poll"])

\* if not self.running: break (52-53)
SvcDoRunIfNotRunning ==
    /\ service.run = "if_not_running"
    /\ ServiceStep([service EXCEPT
           !.run = IF service.running THEN "if_running" ELSE "returned"])

\* if self.running: (line 56)
SvcDoRunIfRunning ==
    /\ service.run = "if_running"
    /\ ServiceStep([service EXCEPT
           !.run = IF service.running THEN "wait_restart"
                   ELSE "while_running"])

\* WaitForSingleObject(hWaitStop, 5000): break when the event is set, the
\* next round of the loop after 5 s (57-58).
SvcDoRunWaitRestart ==
    /\ service.run = "wait_restart"
    /\ ServiceStep(IF service.hWaitStop
                   THEN [service EXCEPT !.hWaitStop = FALSE,
                                        !.run = "returned"]
                   ELSE [service EXCEPT !.run = "while_running"])

SvcDoRun ==
    \/ SvcDoRunWhileRunning
    \/ SvcDoRunPopen
    \/ SvcDoRunPopenRaises
    \/ SvcDoRunSleep
    \/ SvcDoRunPoll
    \/ SvcDoRunWaitStop
    \/ SvcDoRunIfNotRunning
    \/ SvcDoRunIfRunning
    \/ SvcDoRunWaitRestart

\* The control handler calls SvcStop: ReportServiceStatus, running = False
\* (19-20).
SvcStopBegin ==
    /\ service.stop = "idle"
    /\ ServiceStep([service EXCEPT !.running = FALSE, !.stop = "if_process"])

\* if self.process and self.process.poll() is None: (line 23)
SvcStopIfProcess ==
    /\ service.stop = "if_process"
    /\ ServiceStep([service EXCEPT
           !.stop = IF service.process # 0 /\ ProcessRuns
                    THEN "terminate" ELSE "set_event"])

\* terminate(), and the subprocess is gone within the 10 s of wait (25-27).
SvcStopTerminate ==
    /\ service.stop = "terminate"
    /\ ServiceStep([service EXCEPT
           !.live = @ \ {service.process}, !.stop = "set_event"])

\* terminate(), wait raises TimeoutExpired: kill() and wait() (28-31).
SvcStopKill ==
    /\ service.stop = "terminate"
    /\ ProcessRuns
    /\ ServiceStep([service EXCEPT
           !.live = @ \ {service.process},
           !.forced = @ \cup {service.process}, !.stop = "set_event"])

\* win32event.SetEvent(self.hWaitStop) (line 33); SvcStop returns.
SvcStopSetEvent ==
    /\ service.stop = "set_event"
    /\ ServiceStep([service EXCEPT !.hWaitStop = TRUE, !.stop = "returned"])

SvcStop ==
    \/ SvcStopBegin
    \/ SvcStopIfProcess
    \/ SvcStopTerminate
    \/ SvcStopKill
    \/ SvcStopSetEvent

\* A subprocess ends by itself: the bridge returns or crashes.
ProcessExits ==
    \E p \in service.live :
        ServiceStep([service EXCEPT !.live = @ \ {p}])

----------------------------------------------------------------------------
\* No function is called by itself while the bridge runs.
NoCall == [op |-> "none"]
NotReturned == [done |-> FALSE]
Returned(value) == [done |-> TRUE, value |-> value]

\* The bridge as main() starts it.
BridgeInit ==
    /\ pc = [c \in Cars |-> "connecting"]
    /\ attempts = [c \in Cars |-> 0]
    /\ delay = [c \in Cars |-> 0]
    /\ wsOpen = [c \in Cars |-> FALSE]
    /\ pending = [c \in Cars |-> "none"]
    /\ cancelPending = [c \in Cars |-> FALSE]
    /\ lastState = [c \in Cars |-> "none"]
    /\ cycleEnd = [c \in Cars |-> "none"]
    /\ backoff = [c \in Cars |-> NoBackoff]
    /\ cancelledAt = [c \in Cars |-> "none"]
    /\ lastRecv = [c \in Cars |-> "none"]
    /\ published = <<>>
    /\ mainPc = "gather"
    /\ mainCancelPending = FALSE
    /\ mqttConnected = TRUE
    /\ disconnects = 0
    /\ supCancelled = {}
    /\ waitEnd = "none"
    /\ cancelLoopRan = FALSE
    /\ service = TeslaMQTTService

Init ==
    /\ BridgeInit
    /\ discovered_fields = {}
    /\ announced = NoneAnnounced
    /\ call = NoCall
    /\ returned = NotReturned

SessionNext(c) ==
    \/ ConnectOk(c)
    \/ ConnectFail(c)
    \/ SendOk(c)
    \/ SendFail(c)
    \/ SubscribeConfirmed(c)
    \/ SubscribeTimeout(c)
    \/ SubscribeRecvFail(c)
    \/ ReceiveMessage(c)
    \/ ReceiveClosed(c)
    \/ CloseDone(c)
    \/ SleepDone(c)
    \/ Cancelled(c)

MainNext ==
    \/ MainCancelled
    \/ MainWaitDone
    \/ MainWaitTimeout
    \/ MainWaitCancelled
    \/ RunnerCancelsRest

Next ==
    \/ \E c \in Cars : SessionNext(c)
    \/ MainNext
    \/ Signal

Spec == Init /\ [][Next]_vars

\* The event loop keeps running every session task that can run.
LiveSpecSession == Spec /\ \A c \in Cars : WF_vars(SessionNext(c))

\* The event loop keeps running main (and its timer), whatever the sessions do.
LiveSpecMain == Spec /\ WF_vars(MainNext)

----------------------------------------------------------------------------
\* Shorthands of the properties below

WasCancelled(c) == cancelledAt[c] # "none"

\* Session c went through exactly one next_delay and slept the delay it got.
BackedOff(c) ==
    /\ backoff[c].calls = 1
    /\ backoff[c].delay >= BaseDelay * 100
    /\ backoff[c].slept = backoff[c].delay

----------------------------------------------------------------------------
\* C1: a session cancelled at connection establishment, at the wait for the
\* subscription confirmation, at the message receive or in the backoff sleep
\* publishes disconnected before it exits, so disconnected is the last state
\* it ever published.
C1_CancelledEndsDisconnected ==
    \A c \in Cars :
        (pc[c] = "done"
         /\ cancelledAt[c] \in {"connecting", "sub_wait", "streaming", "sleeping"})
        => lastState[c] = "disconnected"

\* C2: once CancelledError was raised in a session, the session is only ever
\* unwinding (closing with the cancellation in flight) or done, it publishes
\* nothing but disconnected, and the unwinding ends with the task done.
C2_CancellationIsTerminal ==
    /\ [](\A c \in Cars :
            WasCancelled(c) =>
                /\ pc[c] \in {"closing", "done"}
                /\ pc[c] = "closing" => pending[c] = "cancel"
                /\ \A i \in 1..Len(published) :
                       published[i].car = c
                       => published[i] = publish_state(c, "disconnected"))
    /\ \A c \in Cars : WasCancelled(c) ~> (pc[c] = "done")

C2_Witness ==
    \E c, d \in Cars :
        /\ cancelledAt[c] = "streaming" /\ pc[c] = "done"
        /\ cancelledAt[d] = "sleeping" /\ pc[d] = "done"

\* C3: after a subscription timeout the transport is closed and the next
\* Connecting attempt begins only after error was published and one
\* next_delay delay was slept.
C3_SubscribeTimeoutBacksOff ==
    \A c \in Cars :
        (cycleEnd[c] = "subscribe_timeout" /\ pc[c] = "connecting")
        => (~wsOpen[c] /\ lastState[c] = "error" /\ BackedOff(c))

\* C4: after the transport closed during streaming the session has published
\* disconnected, and the next Connecting attempt begins only after one
\* next_delay delay was slept.
C4_TransportClosedBacksOff ==
    \A c \in Cars :
        /\ (cycleEnd[c] = "transport_closed" /\ pc[c] = "closing")
           => lastState[c] = "disconnected"
        /\ (cycleEnd[c] = "transport_closed" /\ pc[c] = "connecting")
           => BackedOff(c)

\* C5: a vehicle_disconnected or vehicle_offline error message received while
\* streaming makes the session publish that type as state and stop streaming;
\* unless cancelled the session then reaches Connecting again, its task does
\* not end, and main stays in gather unless it is cancelled itself.
C5_VehicleUnavailableReconnects ==
    /\ [](\A c \in Cars :
            lastRecv[c] \in {"vehicle_disconnected", "vehicle_offline"}
            => /\ lastState[c] = lastRecv[c]
               /\ pc[c] = "closing"
               /\ pending[c] = "none"
               /\ cycleEnd[c] = "stop_streaming")
    /\ [](\A c \in Cars : pc[c] = "done" => WasCancelled(c))
    /\ [](mainPc = "gather" \/ cancelLoopRan)
    /\ \A c \in Cars :
          (lastRecv[c] \in {"vehicle_disconnected", "vehicle_offline"})
          ~> (pc[c] = "connecting" \/ WasCancelled(c))

C5_Witness ==
    \E c \in Cars :
        /\ cycleEnd[c] = "stop_streaming"
        /\ lastState[c] = "vehicle_offline"
        /\ pc[c] = "connecting"
        /\ ~WasCancelled(c)

\* C6: after a vehicle_disconnected / vehicle_offline message ended streaming
\* the next Connecting attempt begins only after a next_delay delay of at
\* least the base delay was slept.
C6_StopStreamingBacksOff ==
    \A c \in Cars :
        (cycleEnd[c] = "stop_streaming" /\ pc[c] = "connecting")
        => (backoff[c].calls >= 1 /\ backoff[c].slept >= BaseDelay * 100)

\* C7: after a failed connect the session has no transport, has published
\* error, has called next_delay exactly once, and is in Connecting again only
\* after sleeping the delay it got; it is in Subscribing or Streaming, or
\* publishes online, only with a transport opened in the same cycle.
C7_ConnectFailureBacksOff ==
    \A c \in Cars :
        /\ cycleEnd[c] = "connect_failed"
           => /\ ~wsOpen[c]
              /\ pc[c] \in {"sleeping", "connecting"}
              /\ backoff[c].calls = 1
              /\ lastState[c] = "error" \/ WasCancelled(c)
              /\ pc[c] = "sleeping" => delay[c] = backoff[c].delay
              /\ pc[c] = "connecting" => BackedOff(c)
        /\ pc[c] \in {"sub_send", "sub_wait", "streaming"}
           => (wsOpen[c] /\ cycleEnd[c] = "none")
        /\ (\E i \in 1..Len(published) :
               published[i] = publish_state(c, "online"))
           => (wsOpen[c] /\ pc[c] = "streaming")

C7_Witness ==
    \E c \in Cars :
        /\ cycleEnd[c] = "connect_failed"
        /\ pc[c] = "connecting"
        /\ attempts[c] = 2
        /\ lastState[c] = "error"

\* C8: a session task ends only by cancellation, and after every failure of
\* a cycle (connect failure, subscription failure or timeout, exception while
\* streaming) the next Connecting attempt begins only after error was
\* published and a backoff was slept.
C8_FailuresContained ==
    \A c \in Cars :
        /\ pc[c] = "done" => WasCancelled(c)
        /\ (pc[c] = "connecting"
            /\ cycleEnd[c] \in {"connect_failed", "subscribe_failed",
                                "subscribe_timeout", "stream_failed"})
           => (lastState[c] = "error" /\ BackedOff(c))

----------------------------------------------------------------------------
\* C11: whatever the interleaving of the sessions, every publication a step
\* of the session of car c makes (state, vin or field value) goes to a topic
\* <prefix>/c/<suffix>, and to no topic under another car's number.
C11_OwnNamespace ==
    [][\A c \in Cars :
          SessionNext(c) =>
             \A i \in DOMAIN published' :
                /\ published'[i].full_topic[1] = MQTT_TOPIC_PREFIX
                /\ published'[i].full_topic[2] = ToString(c)
                /\ \A d \in Cars \ {c} :
                      published'[i].full_topic[2] # ToString(d)]_vars

\* Car 2 publishes a field value, a vin or a state while car 1 is streaming.
C11_Witness ==
    /\ pc[1] = "streaming" /\ lastState[1] = "online"
    /\ \E i, j, k \in DOMAIN published :
          /\ published[i].full_topic = <<MQTT_TOPIC_PREFIX, "2", "state">>
          /\ published[j].full_topic = <<MQTT_TOPIC_PREFIX, "2", "inside_temp">>
          /\ published[k].full_topic = <<MQTT_TOPIC_PREFIX, "2", "vin">>

----------------------------------------------------------------------------
\* A parseable message that is no error frame, no control:hello frame and no
\* data-list frame: a payload that is no object, an error or msg_type member
\* of the wrong type, or an object with none of the three.
OtherShape(m) ==
    \/ m.parse = "nonobject"
    \/ /\ m.parse = "object"
       /\ \/ m.error = "notobject"
          \/ /\ m.error = "absent"
             /\ ~HasDataList(m)
             /\ m.msg_type = "nonstring" \/ ~IsHello(m.msg_type)

\* The step of session c publishes nothing and leaves it streaming on the
\* same transport, with its attempt counter and last state as they were.
NoOp(c) ==
    /\ published' = <<>>
    /\ pc'[c] = "streaming"
    /\ wsOpen'[c]
    /\ pending'[c] = "none"
    /\ attempts'[c] = attempts[c]
    /\ lastState'[c] = lastState[c]

\* C12: every message of another shape received while streaming is a no-op:
\* nothing is published, no error results and the session stays streaming on
\* the same transport.
C12_OtherShapesAreNoOps ==
    [][\A c \in Cars : \A m \in Messages :
          (OtherShape(m) /\ ReceiveThis(c, m)) => NoOp(c)]_vars

----------------------------------------------------------------------------
\* A payload json.loads does not parse.
Unparseable(m) == m.parse \in {"invalid", "undecodable"}

\* An error message whose type is neither of the two that end streaming.
OtherError(m) ==
    m.parse = "object" /\ m.error \notin {"absent", "notobject"} \cup StopTypes

\* C13: an unparseable payload, or an error message of another type,
\* received while streaming publishes nothing and leaves the session
\* streaming, transport open and attempt counter unchanged, ready for the
\* next message.
C13_DroppedMessagesChangeNothing ==
    [][\A c \in Cars : \A m \in Messages :
          ((Unparseable(m) \/ OtherError(m)) /\ ReceiveThis(c, m))
          => NoOp(c)]_vars

----------------------------------------------------------------------------
\* A message that reaches the data branch of process_vehicle_message.
DataFrame(m) ==
    /\ m.parse = "object"
    /\ m.error = "absent"
    /\ m.msg_type # "nonstring"
    /\ ~IsHello(m.msg_type)
    /\ HasDataList(m)

\* What process_field makes of an entry by itself.
EntryResult(item) == process_field(tesla_converter, {}, item.key.cs, item.value)

\* An entry with a key and a value and a non-blank string as key.
ValidEntry(item) == item.shape = "entry" /\ ~InvalidKey(item.key)

\* A valid entry whose conversion gives a non-empty formatted value.
Publishable(item) ==
    /\ ValidEntry(item)
    /\ ~EntryResult(item).raised
    /\ Len(EntryResult(item).formatted_value) > 0

EntryPublication(c, item) ==
    publish(c, EntryResult(item).topic, Text(EntryResult(item).formatted_value))

\* An entry of the message whose conversion fails: the value does not parse
\* (an empty formatted value) or the converter raises on the value object.
HasFailingEntry(m) ==
    \E i \in DOMAIN m.data.list :
        /\ ValidEntry(m.data.list[i])
        /\ m.data.list[i].value.invalid # "true"
        /\ \/ EntryResult(m.data.list[i]).raised
           \/ Len(EntryResult(m.data.list[i]).formatted_value) = 0

\* C14: a data message received while streaming leaves the session
\* streaming, and every entry of it with a valid key and a convertible value
\* is published, whatever happens to the other entries of the message.
C14_FailureAffectsOnlyItsField ==
    [][\A c \in Cars : \A m \in Messages :
          (DataFrame(m) /\ HasFailingEntry(m) /\ ReceiveThis(c, m))
          => /\ pc'[c] = "streaming"
             /\ \A i \in DOMAIN m.data.list :
                   Publishable(m.data.list[i])
                   => \E k \in DOMAIN published' :
                         published'[k] = EntryPublication(c, m.data.list[i])]_vars

----------------------------------------------------------------------------
\* The publications of pubs that are neither a state nor the vin.
FieldPublications(pubs) ==
    SelectSeq(pubs, LAMBDA p : p.topic \notin {"state", "vin"})

\* The entries of the message that are published: each publishable entry
\* is, and there are no more field publications than publishable entries.
PublishedIffPublishable(c, m, pubs) ==
    /\ \A i \in DOMAIN m.data.list :
          Publishable(m.data.list[i])
          => \E k \in DOMAIN pubs : pubs[k] = EntryPublication(c, m.data.list[i])
    /\ Len(FieldPublications(pubs))
          = Cardinality({i \in DOMAIN m.data.list : Publishable(m.data.list[i])})

\* The converter did not run on the entries with a blank key.
BlankKeysNotConverted(m, seen) ==
    \A i \in DOMAIN m.data.list :
        (m.data.list[i].shape = "entry" /\ m.data.list[i].key.ty = "str"
         /\ IsBlank(m.data.list[i].key.cs))
        => m.data.list[i].key.cs \notin seen

\* C15: of a data message exactly the entries are published that have a key
\* and a value, a non-blank string as key and a non-empty formatted value;
\* an entry with another key is skipped without running the converter and
\* the later entries are still processed.
C15_PublishedIffPublishable ==
    [][\A c \in Cars : \A m \in Messages :
          (DataFrame(m) /\ ReceiveThis(c, m))
          => /\ PublishedIffPublishable(c, m, published')
             /\ BlankKeysNotConverted(m, discovered_fields')]_vars

----------------------------------------------------------------------------
\* A control:hello message, by the branch of process_vehicle_message it takes.
HelloFrame(m) ==
    /\ m.parse = "object"
    /\ m.error = "absent"
    /\ m.msg_type # "nonstring"
    /\ IsHello(m.msg_type)

\* pubs starts with the one online state publication of car c.
OneOnlineFirst(c, pubs) ==
    /\ Len(pubs) >= 1
    /\ pubs[1] = publish_state(c, "online")
    /\ \A k \in DOMAIN pubs : pubs[k].topic = "state" => k = 1

\* The field publications are publications of entries of the message, in
\* the order of the entries.
InEntryOrder(c, m, fields) ==
    \E at \in [DOMAIN fields -> DOMAIN m.data.list] :
        /\ \A k \in DOMAIN fields :
              /\ Publishable(m.data.list[at[k]])
              /\ fields[k] = EntryPublication(c, m.data.list[at[k]])
        /\ \A j, k \in DOMAIN fields : j < k => at[j] < at[k]

\* A vin publication is the last one, carries the vin of the message, and
\* only a message with a vin has one.
VinLast(c, m, pubs) ==
    \A k \in DOMAIN pubs :
        pubs[k].topic = "vin"
        => k = Len(pubs) /\ m.vin # "absent" /\ pubs[k] = publish(c, "vin", m.vin)

\* C16: a control:hello or data message received while streaming causes
\* exactly one online publication, which comes first; the field publications
\* of a data message follow in the order of its entries, and the vin
\* publication comes last, all within the step that received the message.
C16_PublicationOrder ==
    [][\A c \in Cars : \A m \in Messages :
          /\ (HelloFrame(m) /\ ReceiveThis(c, m))
             => published' = <<publish_state(c, "online")>>
          /\ (DataFrame(m) /\ ReceiveThis(c, m))
             => /\ OneOnlineFirst(c, published')
                /\ InEntryOrder(c, m, FieldPublications(published'))
                /\ VinLast(c, m, published')]_vars

\* A data message with several entries and a vin was received: online, two
\* field values and the vin were published.
C16_Witness ==
    \E c \in Cars :
        /\ Len(published) = 4
        /\ published[1] = publish_state(c, "online")
        /\ published[2].topic = "inside_temp"
        /\ published[3].topic = "location"
        /\ published[4] = publish(c, "vin", "VIN1")

----------------------------------------------------------------------------
\* process_field called by itself, on field identifiers and value objects
\* drawn from the sets below.

\* Identifiers of a speed, a distance, a temperature and a location field,
\* and of two fields no table knows.
FieldNames ==
    {F_VehicleSpeed, F_Odometer, F_InsideTemp, F_Location, F_Gear, F_Soc}

\* JSON values a member of a value object may have.
SampleValues ==
    { PyNone, PyBool(TRUE), PyBool(FALSE), PyInt(0), PyInt(72),
      PyFloat(6000), PyFloat(-125), PyStr(<<>>),
      PyStr(<<"1", "2", ".", "5">>), PyStr(<<"a", "b", "c">>),
      PyStr(ShiftStatePrefix), PyStr(ShiftStatePrefix \o <<"D">>), PyDict }

\* The members process_field looks for.
RecognizedTags ==
    {"locationValue", "shiftStateValue", "stringValue", "doubleValue",
     "intValue", "boolValue", "numberValue"}

\* "invalid" absent, true, or present with another value.
InvalidFlags == {"absent", "true", "other"}

\* Value objects with no member, one member (a recognized one or another)
\* and some with two, and a JSON number in place of the object.
SampleTags ==
    {NoTags}
    \cup {tag :> v : tag \in RecognizedTags \cup {"otherValue"},
                     v \in SampleValues}
    \cup { ("boolValue" :> PyBool(TRUE)) @@ ("numberValue" :> PyInt(72)),
           ("stringValue" :> PyStr(<<"a", "b", "c">>))
               @@ ("doubleValue" :> PyFloat(6000)),
           ("locationValue" :> PyDict) @@ ("intValue" :> PyInt(72)) }

ValueObjs ==
    {ValueObj(invalid, tags) : invalid \in InvalidFlags, tags \in SampleTags}
    \cup {NumberObj}

ProcessFieldCall(field_name, value_obj) ==
    [op |-> "process_field", field_name |-> field_name, value_obj |-> value_obj]

ProcessFieldCalls ==
    {ProcessFieldCall(f, v) : f \in FieldNames, v \in ValueObjs}

\* The call runs: tesla_converter.process_field(key, value_obj).
ApplyProcessField ==
    /\ call.op = "process_field"
    /\ ~returned.done
    /\ returned' = Returned(process_field(tesla_converter, discovered_fields,
                                          call.field_name, call.value_obj))
    /\ discovered_fields' = returned'.value.discovered_fields
    /\ announced' = Announce(announced, discovered_fields' \ discovered_fields)
    /\ UNCHANGED <<bridgeVars, call>>

\* The fields of the sample that no table knows.
UnknownFields == {f \in FieldNames : f \notin DOMAIN tesla_converter.field_mappings}

\* The call is made in a process that may have discovered fields before.
FieldInit ==
    /\ BridgeInit
    /\ discovered_fields \in SUBSET UnknownFields
    /\ announced = AnnouncedOnce(discovered_fields)
    /\ call \in ProcessFieldCalls
    /\ returned = NotReturned

FieldNext == ApplyProcessField

FieldSpec == FieldInit /\ [][FieldNext]_vars

\* process_field has returned what it was called with.
ProcessFieldReturned == call.op = "process_field" /\ returned.done

\* C17: whatever the field identifier and whatever members the value object
\* has, a value object whose invalid flag is true gives an empty formatted
\* value, and no session publishes anything for the entry.
C17_InvalidNeverPublished ==
    (ProcessFieldReturned /\ call.value_obj.invalid = "true")
    => /\ ~returned.value.raised
       /\ returned.value.formatted_value = <<>>
       /\ \A c \in Cars : FieldPublication(c, returned.value) = <<>>

\* An invalid reading that carries a number was processed.
C17_Witness ==
    /\ ProcessFieldReturned
    /\ call.value_obj.invalid = "true"
    /\ call.field_name = F_Odometer
    /\ "doubleValue" \in DOMAIN call.value_obj.tags
    /\ call.value_obj.tags["doubleValue"] = PyFloat(6000)

\* The JSON kind each member has on the wire.
KindOk(tag, v) ==
    CASE tag \in {"stringValue", "shiftStateValue"} -> v.ty = "str"
      [] tag \in {"doubleValue", "numberValue"} -> v.ty \in {"int", "float"}
      [] tag = "intValue" -> v.ty = "int"
      [] tag = "boolValue" -> v.ty = "bool"
      [] tag = "locationValue" -> v.ty = "dict"
      [] OTHER -> TRUE

\* A value object with at most one of the recognized members, of its kind.
WellFormed(value_obj) ==
    /\ value_obj.shape = "dict"
    /\ Cardinality(DOMAIN value_obj.tags \cap RecognizedTags) <= 1
    /\ \A tag \in DOMAIN value_obj.tags : KindOk(tag, value_obj.tags[tag])

\* The recognized member process_field takes for the field, if any: a
\* locationValue is taken only for a location field.
RecognizedFor(field_name, tags) ==
    {tag \in DOMAIN tags \cap RecognizedTags :
        tag = "locationValue" => field_name \in LOCATION_FIELDS}

\* The fields whose value must be a number: the fields of type real, and
\* the distance and speed fields, which miles_to_km converts.
NumberFields ==
    {f \in DOMAIN tesla_converter.field_types :
        tesla_converter.field_types[f] = "real"}
NumberFieldsOfText ==
    (DOMAIN DISTANCE_FIELDS) \cup (DOMAIN SPEED_FIELDS)

\* A text that gives no value: the empty one, and one that is no number
\* where a number is needed.
NoValueText(field_name, tag, text) ==
    \/ text = <<>>
    \/ /\ ~ParseDecimal(text).ok
       /\ \/ field_name \in NumberFieldsOfText
          \/ tag = "stringValue" /\ field_name \in NumberFields

\* The content of the member gives no value: only a text can, a shift state
\* after its prefix is stripped.
GivesNoValue(field_name, tag, v) ==
    /\ tag \in {"stringValue", "shiftStateValue"}
    /\ NoValueText(field_name, tag,
                   IF tag = "shiftStateValue" THEN ShiftStateOf(v.cs) ELSE v.cs)

WellFormedCallReturned == ProcessFieldReturned /\ WellFormed(call.value_obj)

\* C18 as stated: for every field identifier and well-formed value object,
\* the formatted value is empty exactly when the invalid flag is set or the
\* object has none of the recognized members.
C18_EmptyIffInvalidOrUntagged ==
    WellFormedCallReturned
    => (returned.value.formatted_value = <<>>
        <=> \/ call.value_obj.invalid = "true"
            \/ DOMAIN call.value_obj.tags \cap RecognizedTags = {})

\* C18 amended: for every field identifier and well-formed value object, the
\* formatted value is empty exactly when the invalid flag is set, the object
\* has no member recognized for the field, or the content of its member
\* gives no value; it is non-empty in every other case.
C18_EmptyIffNothingToPublish ==
    WellFormedCallReturned
    => (returned.value.formatted_value = <<>>
        <=> \/ call.value_obj.invalid = "true"
            \/ RecognizedFor(call.field_name, call.value_obj.tags) = {}
            \/ \E tag \in RecognizedFor(call.field_name, call.value_obj.tags) :
                   GivesNoValue(call.field_name, tag, call.value_obj.tags[tag]))

\* A well-formed reading of a distance field whose text is no number came
\* back with an empty formatted value.
C18_Witness ==
    /\ WellFormedCallReturned
    /\ call.field_name = F_Odometer
    /\ call.value_obj = ValueObj("absent", "stringValue" :> PyStr(<<"a", "b", "c">>))
    /\ returned.value.formatted_value = <<>>

\* Two more fields no table knows.
F_BatteryLevel == <<"B", "a", "t", "t", "e", "r", "y", "L", "e", "v", "e", "l">>
F_ChargeState == <<"C", "h", "a", "r", "g", "e", "S", "t", "a", "t", "e">>

F_ACChargingPower == <<"A", "C", "C", "h", "a", "r", "g", "i", "n", "g", "P", "o", "w", "e", "r">>
F_TestCase == <<"T", "e", "s", "t", "C", "a", "s", "e">>
F_simple == <<"s", "i", "m", "p", "l", "e">>

\* The field identifiers the sessions look up.
LookupFields ==
    FieldNames \cup {F_BatteryLevel, F_ChargeState, F_ACChargingPower,
                     F_TestCase, F_simple}

GetMqttTopicCall(c, field_name) ==
    [op |-> "get_mqtt_topic", car |-> c, field_name |-> field_name]

\* Session c looks up the topic of a field: get_mqtt_topic has no await, so
\* the lookups of the sessions interleave as whole calls.
LookupThis(c, field_name, t) ==
    /\ call' = GetMqttTopicCall(c, field_name)
    /\ returned' = Returned(t)
    /\ discovered_fields' = t.discovered_fields
    /\ announced' = IF t.is_new THEN Announce(announced, {field_name})
                    ELSE announced
    /\ UNCHANGED bridgeVars

Lookup(c) ==
    \E field_name \in LookupFields :
        LookupThis(c, field_name,
                   get_mqtt_topic(tesla_converter, discovered_fields, field_name))

LookupInit ==
    /\ BridgeInit
    /\ discovered_fields = {}
    /\ announced = NoneAnnounced
    /\ call = NoCall
    /\ returned = NotReturned

LookupNext == \E c \in Cars : Lookup(c)

LookupSpec == LookupInit /\ [][LookupNext]_vars

\* C19: however the lookups of the sessions interleave, the discovery set
\* only grows, every field in it was logged as new exactly once and no field
\* is logged more than once, and no field of the loaded table is ever in it.
C19_DiscoveredAtMostOnce ==
    [][/\ discovered_fields \subseteq discovered_fields'
       /\ DOMAIN announced' = discovered_fields'
       /\ \A f \in DOMAIN announced' : announced'[f] = 1
       /\ discovered_fields' \cap DOMAIN tesla_converter.field_mappings = {}]_vars

\* The second session looked up a field that was discovered before, after
\* lookups that also asked for a field of the table: nothing was logged.
C19_Witness ==
    /\ call = GetMqttTopicCall(2, F_Gear)
    /\ returned.done
    /\ ~returned.value.is_new
    /\ discovered_fields = {F_Gear, F_Soc}
    /\ announced = AnnouncedOnce({F_Gear, F_Soc})

\* Bound on the consecutive next_delay calls of one manager.
MaxCalls == 9

\* The variables a reconnection manager called by itself leaves alone.
managerRest == <<pc, delay, wsOpen, pending, cancelPending, lastState,
                 cycleEnd, backoff, cancelledAt, lastRecv, published, mainPc,
                 mainCancelPending, mqttConnected, disconnects, supCancelled,
                 waitEnd, cancelLoopRan, discovered_fields, announced,
                 service>>

\* att: the attempt counter before the call; j: the jitter draw.
NextDelayCall(c, att, j) ==
    [op |-> "next_delay", car |-> c, attempts |-> att, j |-> j]
ResetCall(c, att) ==
    [op |-> "reset", car |-> c, attempts |-> att, j |-> 0]

\* reconnect_manager.next_delay() of session c, with the draw j.
CallNextDelayWith(c, j, nd) ==
    /\ call' = NextDelayCall(c, attempts[c], j)
    /\ returned' = Returned(nd)
    /\ attempts' = [attempts EXCEPT ![c] = nd.attempts]
    /\ UNCHANGED managerRest

CallNextDelay(c) ==
    /\ attempts[c] < MaxCalls
    /\ \E j \in JitterDraws :
          CallNextDelayWith(c, j, next_delay(attempts[c], j))

CallResetKeepingCount(c) ==
    /\ call' = ResetCall(c, attempts[c])
    /\ returned' = NotReturned
    /\ UNCHANGED attempts
    /\ UNCHANGED managerRest

\* reconnect_manager.reset() of session c, at any count.
CallReset(c) ==
    /\ call' = ResetCall(c, attempts[c])
    /\ returned' = NotReturned
    /\ attempts' = [attempts EXCEPT ![c] = reset]
    /\ UNCHANGED managerRest

DelayInit ==
    /\ BridgeInit
    /\ discovered_fields = {}
    /\ announced = NoneAnnounced
    /\ call = NoCall
    /\ returned = NotReturned

DelayNext == \E c \in Cars : CallNextDelay(c) \/ CallReset(c)

DelaySpec == DelayInit /\ [][DelayNext]_vars

\* The nominal delays the claim lists, in seconds: 5, 10, 20, 40, 80, 160,
\* then 300 for every later call.
ListedDelay(k) == IF k <= 6 THEN <<5, 10, 20, 40, 80, 160>>[k] ELSE 300

\* The delay a call returns for a nominal delay and a jitter draw, in
\* hundredths of a second.
Jittered(nominal, j) ==
    Max(BaseDelay * 100, nominal * 100 + j * nominal * JitterPercent)

\* The latest two calls are consecutive next_delay calls of one manager.
ConsecutiveCalls ==
    /\ call.op = "next_delay"
    /\ call'.op = "next_delay"
    /\ call'.car = call.car

\* C20: with base 5 and max 300, the k-th next_delay call since the last
\* reset raises the attempt counter by exactly 1, to k, and returns the
\* listed nominal delay 5, 10, 20, 40, 80, 160, 300, 300, ... with the drawn
\* jitter applied (the nominal delay itself for a draw of 0); the nominal
\* delay of a call is never below that of the call before it.
C20_NominalDelaySequence ==
    [][call'.op = "next_delay" =>
         /\ returned'.value.attempts = call'.attempts + 1
         /\ attempts'[call'.car] = call'.attempts + 1
         /\ returned'.value.delay
              = Jittered(ListedDelay(call'.attempts + 1), call'.j)
         /\ (ConsecutiveCalls /\ call.j = 0 /\ call'.j = 0)
              => returned'.value.delay >= returned.value.delay]_vars

\* The eighth consecutive call, drawn without jitter, returned 300 seconds.
C20_Witness ==
    /\ call.op = "next_delay"
    /\ call.attempts = 7
    /\ call.j = 0
    /\ returned.done
    /\ returned.value = [attempts |-> 8, delay |-> 30000]

\* The call before the latest one was a reset() of the same manager.
AfterReset == call.op = "reset" /\ call'.car = call.car

\* C21: reset() leaves the attempt counter at 0 whatever it was; the
\* next_delay call that follows it raises the counter to 1 and returns the
\* base delay with the drawn jitter applied; a reset() that follows a
\* reset() changes nothing.
C21_ResetRestartsSequence ==
    [][/\ call'.op = "reset" => attempts'[call'.car] = 0
       /\ (AfterReset /\ call'.op = "next_delay")
            => /\ returned'.value.attempts = 1
               /\ attempts'[call'.car] = 1
               /\ returned'.value.delay = Jittered(BaseDelay, call'.j)
       /\ (AfterReset /\ call'.op = "reset")
            => attempts' = attempts]_vars

\* reset() was called after five next_delay calls in a row.
C21_Witness ==
    /\ call = ResetCall(1, 5)
    /\ attempts[1] = 0

-----------------------------------------------------------------------------
\* TeslaMetricConverter._load_field_metadata

\* str.strip('"')
RECURSIVE StripLeft(_)
StripLeft(cs) ==
    IF Len(cs) > 0 /\ Head(cs) = "\"" THEN StripLeft(Tail(cs)) ELSE cs
RECURSIVE StripRight(_)
StripRight(cs) ==
    IF Len(cs) > 0 /\ cs[Len(cs)] = "\""
    THEN StripRight(SubSeq(cs, 1, Len(cs) - 1))
    ELSE cs
StripQuotes(cs) == StripRight(StripLeft(cs))

\* The three tables after __init__, before the file is read.
NoMappings ==
    [field_mappings |-> [f \in {} |-> ""],
     field_types |-> [f \in {} |-> ""],
     field_categories |-> [f \in {} |-> ""]]

\* The topic a row gets: the fixed one for a distance or speed field, the
\* derived one for every other field.
RowTopic(field_name) ==
    IF field_name \in DOMAIN DISTANCE_FIELDS THEN DISTANCE_FIELDS[field_name]
    ELSE IF field_name \in DOMAIN SPEED_FIELDS THEN SPEED_FIELDS[field_name]
    ELSE Text(camel_to_snake(field_name))

\* The three assignments of one row; a later row of a field replaces an
\* earlier one.
StoreField(conv, field_name, field_type, category) ==
    [field_mappings |-> (field_name :> RowTopic(field_name)) @@ conv.field_mappings,
     field_types |-> (field_name :> field_type) @@ conv.field_types,
     field_categories |-> (field_name :> category) @@ conv.field_categories]

StoreRow(conv, row) ==
    StoreField(conv, StripQuotes(row.field),
               Text(LowerText(StripQuotes(row.type))),
               Text(LowerText(StripQuotes(row.category))))

\* _set_default_mappings(): assigns the built-in entries over whatever the
\* tables hold; entries of other fields stay.
_set_default_mappings(conv) ==
    [field_mappings |-> DefaultMappings.field_mappings @@ conv.field_mappings,
     field_types |-> DefaultMappings.field_types @@ conv.field_types,
     field_categories |->
         DefaultMappings.field_categories @@ conv.field_categories]

\* What the try block raises on a file or a row that cannot be read: "none"
\* for a row with all four columns.
\*   file "missing": open raises FileNotFoundError
\*   file "unreadable": open raises PermissionError
\*   row "no_column": the header lacks a column, row[...] raises KeyError
\*   row "short": the row has fewer cells, the cell is None and None.strip
\*                raises AttributeError
RaisedBy(kind) ==
    CASE kind = "missing" -> "FileNotFoundError"
      [] kind = "unreadable" -> "PermissionError"
      [] kind = "no_column" -> "KeyError"
      [] kind = "short" -> "AttributeError"
      [] OTHER -> "none"

\* The exception classes below Exception among these.
ExceptionClasses ==
    {"FileNotFoundError", "PermissionError", "KeyError", "AttributeError"}

LoadedOk(conv) == [raised |-> FALSE, fallback |-> FALSE, conv |-> conv]
LoadRaised(conv) == [raised |-> TRUE, fallback |-> FALSE, conv |-> conv]
LoadedDefaults(conv) ==
    [raised |-> FALSE, fallback |-> TRUE, conv |-> _set_default_mappings(conv)]

\* except FileNotFoundError / except Exception: both call
\* _set_default_mappings on the tables as the try block left them.
HandleLoadErrorOnlyMissingFile(conv, exc) ==
    IF exc = "FileNotFoundError" THEN LoadedDefaults(conv) ELSE LoadRaised(conv)

HandleLoadError(conv, exc) ==
    IF exc = "FileNotFoundError" \/ exc \in ExceptionClasses
    THEN LoadedDefaults(conv)
    ELSE LoadRaised(conv)

\* The for loop over the rows, from row i on.
RECURSIVE LoadRows(_, _, _)
LoadRows(conv, rows, i) ==
    IF i > Len(rows) THEN LoadedOk(conv)
    ELSE IF RaisedBy(rows[i].kind) # "none"
    THEN HandleLoadError(conv, RaisedBy(rows[i].kind))
    ELSE LoadRows(StoreRow(conv, rows[i]), rows, i + 1)

\* _load_field_metadata(csv_file), called by __init__ on empty tables.
_load_field_metadata(file) ==
    IF RaisedBy(file.kind) # "none"
    THEN HandleLoadError(NoMappings, RaisedBy(file.kind))
    ELSE LoadRows(NoMappings, file.rows, 1)

\* Bound on the rows of a metadata file.
MaxRows == 2

Quoted(cs) == <<"\"">> \o cs \o <<"\"">>

\* A row with its four columns (the column Vehicle Data Equivalent is read
\* and not used), and rows that cannot be read.
Row(field, type, category) ==
    [kind |-> "row", field |-> field, type |-> type, category |-> category]
ShortRow == [kind |-> "short", field |-> <<>>, type |-> <<>>, category |-> <<>>]
RowOfOtherHeader ==
    [kind |-> "no_column", field |-> <<>>, type |-> <<>>, category |-> <<>>]

T_Real == <<"R", "e", "a", "l">>
T_Integer == <<"i", "n", "t", "e", "g", "e", "r">>
T_String == <<"S", "t", "r", "i", "n", "g">>
T_Boolean == <<"b", "o", "o", "l", "e", "a", "n">>
T_Enum == <<"e", "n", "u", "m">>
K_Vehicle == <<"V", "e", "h", "i", "c", "l", "e">>

\* Rows for a distance, a speed, a temperature and a location field under
\* types that differ from the built-in ones, and for a field no set names.
SampleRows ==
    { Row(Quoted(F_Odometer), Quoted(T_Integer), Quoted(K_Vehicle)),
      Row(F_Odometer, T_Boolean, K_Vehicle),
      Row(F_VehicleSpeed, T_String, K_Vehicle),
      Row(F_InsideTemp, T_Integer, K_Vehicle),
      Row(F_InsideTemp, T_String, K_Vehicle),
      Row(F_Location, T_Real, K_Vehicle),
      Row(F_Gear, T_Enum, K_Vehicle),
      ShortRow, RowOfOtherHeader }

RowLists == UNION {[1..n -> SampleRows] : n \in 0..MaxRows}

\* Metadata files: missing, unreadable, or readable with some rows.
MetadataFile(kind, rows) == [kind |-> kind, rows |-> rows]
MetadataFiles ==
    {MetadataFile("missing", <<>>), MetadataFile("unreadable", <<>>)}
    \cup {MetadataFile("readable", rows) : rows \in RowLists}

LoadCall(file) == [op |-> "_load_field_metadata", file |-> file]
LoadedFieldCall(conv, field_name, value_obj) ==
    [op |-> "process_field", conv |-> conv, field_name |-> field_name,
     value_obj |-> value_obj]

\* The fields and readings given to a converter once it is loaded.
LoadedFields == {F_Odometer, F_VehicleSpeed, F_InsideTemp, F_Gear}
Reading(tag, v) == ValueObj("absent", tag :> v)
LoadedReadings ==
    {Reading("stringValue", PyStr(cs)) :
        cs \in {<<"1", "0", "0">>, <<"1", "2", ".", "5">>, <<"a", "b", "c">>,
                <<"9", "8", ".", "6">>, <<"2", "0">>}}
    \cup {Reading("doubleValue", PyFloat(h)) :
              h \in {10000, 9860, 5000, 5001, 100, 0}}
    \cup {Reading("intValue", PyInt(n)) : n \in {100, 212, 51, 50, 20, 1, 0}}
    \cup {Reading("numberValue", PyInt(100)), Reading("boolValue", PyBool(TRUE)),
          Reading("shiftStateValue", PyStr(ShiftStatePrefix \o <<"D">>)),
          Reading("locationValue", PyDict),
          ValueObj("true", "doubleValue" :> PyFloat(10000))}

\* TeslaMetricConverter(csv_file): __init__ calls _load_field_metadata.
ApplyLoad ==
    /\ call.op = "_load_field_metadata"
    /\ ~returned.done
    /\ returned' = Returned(_load_field_metadata(call.file))
    /\ UNCHANGED <<bridgeVars, discovered_fields, announced, call>>

\* process_field of the converter that was loaded.
ProcessLoadedWith(conv, field_name, value_obj, r) ==
    /\ call' = LoadedFieldCall(conv, field_name, value_obj)
    /\ returned' = Returned(r)
    /\ discovered_fields' = r.discovered_fields
    /\ announced' = Announce(announced, r.discovered_fields \ discovered_fields)
    /\ UNCHANGED bridgeVars

ProcessLoadedBy(conv) ==
    \E field_name \in LoadedFields, value_obj \in LoadedReadings :
        ProcessLoadedWith(conv, field_name, value_obj,
            process_field(conv, discovered_fields, field_name, value_obj))

ProcessLoaded ==
    /\ call.op = "_load_field_metadata"
    /\ returned.done
    /\ ~returned.value.raised
    /\ ProcessLoadedBy(returned.value.conv)

LoadInit ==
    /\ BridgeInit
    /\ discovered_fields = {}
    /\ announced = NoneAnnounced
    /\ call \in {LoadCall(file) : file \in MetadataFiles}
    /\ returned = NotReturned

LoadNext == ApplyLoad \/ ProcessLoaded

LoadSpec == LoadInit /\ [][LoadNext]_vars

\* The distance and speed fields and their fixed topics.
FixedTopics == DISTANCE_FIELDS @@ SPEED_FIELDS

\* The loaded converter has processed a reading and the result is one the
\* session publishes.
LoadedResultPublished ==
    /\ call.op = "process_field"
    /\ returned.done
    /\ ~returned.value.raised
    /\ returned.value.formatted_value # <<>>

\* The one member of a reading and its coerced value.
TagOf(value_obj) == CHOOSE tag \in DOMAIN value_obj.tags : TRUE
CoercedMember(conv, field_name, tag, v) ==
    IF tag = "shiftStateValue" THEN PyStr(ShiftStateOf(v.cs))
    ELSE RawValue(conv, field_name, tag, v)
Coerced(conv, field_name, value_obj) ==
    CoercedMember(conv, field_name, TagOf(value_obj),
                  value_obj.tags[TagOf(value_obj)])

\* A raw value of 100: as a number or as text.
IsHundred(value_obj) ==
    value_obj.tags[TagOf(value_obj)]
        \in {PyInt(100), PyFloat(10000), PyStr(<<"1", "0", "0">>)}

\* The registry types the field as boolean: 100 is coerced to True.
TypedBoolean(conv, field_name) ==
    /\ field_name \in DOMAIN conv.field_types
    /\ conv.field_types[field_name] = "boolean"

IsNumeric(v) == v.ty \in {"bool", "int", "float"}

\* Celsius readings of some Fahrenheit values, in hundredths of a degree.
CelsiusExamples ==
    (9860 :> <<"3", "7", ".", "0", "0">>)
    @@ (10000 :> <<"3", "7", ".", "7", "8">>)
    @@ (21200 :> <<"1", "0", "0", ".", "0", "0">>)
    @@ (5100 :> <<"1", "0", ".", "5", "6">>)
    @@ (5001 :> <<"1", "0", ".", "0", "1">>)
    @@ (9800 :> <<"3", "6", ".", "6", "7">>)

\* The published text of a temperature whose coerced value is v.
TemperatureText(field_name, v, text) ==
    IF v.h > 5000
    THEN /\ text = format_value(field_name, fahrenheit_to_celsius(v))
         /\ text # format_value(field_name, v)
         /\ v.h \in DOMAIN CelsiusExamples => text = CelsiusExamples[v.h]
    ELSE /\ text = format_value(field_name, v)
         /\ text \in {Fixed2(v.h), StrOf(v)}

\* C23: for a temperature field, a coerced numeric value is converted from
\* Fahrenheit to Celsius exactly when it is above 50: 98.6 is published as
\* 37.00, while 20 and exactly 50 are published as they are.
C23_CelsiusOnlyAbove50 ==
    (/\ LoadedResultPublished
     /\ call.field_name \in TEMPERATURE_FIELDS
     /\ IsNumeric(Coerced(call.conv, call.field_name, call.value_obj)))
    => TemperatureText(call.field_name,
                       Coerced(call.conv, call.field_name, call.value_obj),
                       returned.value.formatted_value)

\* A reading of exactly 50.0 of the cabin temperature, typed real by the
\* built-in table, was published unconverted.
C23_Witness ==
    /\ LoadedResultPublished
    /\ call.field_name = F_InsideTemp
    /\ call.conv = DefaultMappings
    /\ call.value_obj = Reading("doubleValue", PyFloat(5000))
    /\ returned.value.formatted_value = <<"5", "0", ".", "0", "0">>

\* A lookup has returned.
LookupReturned == call.op = "get_mqtt_topic" /\ returned.done

\* The topic the first lookup of a process gives the field.
FirstTopic(field_name) == get_mqtt_topic(tesla_converter, {}, field_name).topic

\* C24: whatever lookups came before and whatever the discovery set holds,
\* get_mqtt_topic returns for a field the topic it returns on the first
\* lookup of the process, and camel_to_snake applied to its own result
\* returns that result.
C24_TopicDeterministicAndIdempotent ==
    LookupReturned
    => /\ returned.value.topic = FirstTopic(call.field_name)
       /\ camel_to_snake(camel_to_snake(call.field_name))
            = camel_to_snake(call.field_name)

\* The second session looked up an acronym field when it and other fields
\* had been discovered before, and got the topic of the first lookup.
C24_Witness ==
    /\ call = GetMqttTopicCall(2, F_ACChargingPower)
    /\ returned.done
    /\ ~returned.value.is_new
    /\ {F_ACChargingPower, F_Gear} \subseteq discovered_fields
    /\ returned.value.topic = "ac_charging_power"

-----------------------------------------------------------------------------
\* camel_to_snake called by itself

\* Bound on the length of the generated names.
MaxNameLen == 4

\* Two capitals, a lowercase letter, a digit and the underscore.
NameAlphabet == {"A", "B", "c", "1", "_"}

F_EstBatteryRangeSnake == <<"e", "s", "t", "_", "b", "a", "t", "t", "e", "r", "y", "_", "r", "a", "n", "g", "e">>
F_VehicleSpeedSnake == <<"v", "e", "h", "i", "c", "l", "e", "_", "s", "p", "e", "e", "d">>
F_ACChargingPowerSnake == <<"a", "c", "_", "c", "h", "a", "r", "g", "i", "n", "g", "_", "p", "o", "w", "e", "r">>
F_TestCaseSnake == <<"t", "e", "s", "t", "_", "c", "a", "s", "e">>

\* The names of the documented examples and what they give.
SnakeExamples ==
    (F_VehicleSpeed :> F_VehicleSpeedSnake)
    @@ (F_EstBatteryRange :> F_EstBatteryRangeSnake)
    @@ (F_ACChargingPower :> F_ACChargingPowerSnake)
    @@ (F_TestCase :> F_TestCaseSnake)
    @@ (F_simple :> F_simple)

\* Every name over the alphabet up to the bound, and the examples.
Names ==
    UNION {[1..n -> NameAlphabet] : n \in 0..MaxNameLen}
    \cup DOMAIN SnakeExamples

CamelToSnakeCall(name) == [op |-> "camel_to_snake", name |-> name]

ApplyCamelToSnake ==
    /\ call.op = "camel_to_snake"
    /\ ~returned.done
    /\ returned' = Returned(camel_to_snake(call.name))
    /\ UNCHANGED <<bridgeVars, discovered_fields, announced, call>>

NameInit ==
    /\ BridgeInit
    /\ discovered_fields = {}
    /\ announced = NoneAnnounced
    /\ call \in {CamelToSnakeCall(name) : name \in Names}
    /\ returned = NotReturned

NameNext == ApplyCamelToSnake

NameSpec == NameInit /\ [][NameNext]_vars

\* The boundaries of the rule, in the name as given: a capital after a
\* lowercase letter or a digit, and the capital that starts a capitalized
\* word after a run of two or more capitals.
WordBoundaries(cs) ==
    {i \in 2..Len(cs) :
        /\ cs[i] \in UpperCh
        /\ \/ cs[i - 1] \in (LowerCh \cup DigitCh)
           \/ /\ i > 2 /\ i < Len(cs)
              /\ cs[i - 1] \in UpperCh /\ cs[i - 2] \in UpperCh
              /\ cs[i + 1] \in LowerCh}

HasNoCapital(cs) == \A i \in DOMAIN cs : cs[i] \notin UpperCh

\* C25: camel_to_snake returns the name with an underscore before every
\* capital that follows a lowercase letter or a digit and before every
\* capitalized word that follows a run of two or more capitals, all in
\* lowercase; the documented examples give their documented results and a
\* name without capitals is returned as it is.
C25_CamelToSnakeRule ==
    (call.op = "camel_to_snake" /\ returned.done)
    => /\ returned.value
            = LowerText(WithUnderscores(call.name, WordBoundaries(call.name), 1))
       /\ call.name \in DOMAIN SnakeExamples
            => returned.value = SnakeExamples[call.name]
       /\ HasNoCapital(call.name) => returned.value = call.name

\* ACChargingPower was converted to ac_charging_power.
C25_Witness ==
    /\ call = CamelToSnakeCall(F_ACChargingPower)
    /\ returned.done
    /\ returned.value = F_ACChargingPowerSnake

-----------------------------------------------------------------------------
\* miles_to_km and fahrenheit_to_celsius called by themselves

\* Bound on the whole numbers given to the unit conversions.
MaxUnitInput == 130

\* Arguments: whole numbers as int and as float, some with decimals, an
\* int beyond the float range, bools, texts that are numbers and texts that
\* are not, None, and a list and an object.
UnitInputs ==
    {PyInt(n) : n \in (-40)..MaxUnitInput}
    \cup {PyFloat(100 * n) : n \in 0..MaxUnitInput}
    \cup {PyFloat(h) : h \in {1, 250, 9860, -125}}
    \cup {PyInt(212), PyFloat(21200)}
    \cup {PyHugeInt, PyBool(TRUE), PyBool(FALSE), PyNone, PyList, PyDict}
    \cup {PyStr(cs) : cs \in {<<>>, <<"1", "0", "0">>, <<"1", "2", ".", "5">>,
                              <<"-", "4", "0">>,
                              <<"i", "n", "v", "a", "l", "i", "d">>}}

UnitCall(op, arg) == [op |-> op, arg |-> arg]

ApplyMilesToKm ==
    /\ call.op = "miles_to_km"
    /\ ~returned.done
    /\ returned' = Returned(miles_to_km(call.arg))
    /\ UNCHANGED <<bridgeVars, discovered_fields, announced, call>>

ApplyFahrenheitToCelsius ==
    /\ call.op = "fahrenheit_to_celsius"
    /\ ~returned.done
    /\ returned' = Returned(fahrenheit_to_celsius(call.arg))
    /\ UNCHANGED <<bridgeVars, discovered_fields, announced, call>>

UnitInit ==
    /\ BridgeInit
    /\ discovered_fields = {}
    /\ announced = NoneAnnounced
    /\ call \in {UnitCall(op, arg) :
                    op \in {"miles_to_km", "fahrenheit_to_celsius"},
                    arg \in UnitInputs}
    /\ returned = NotReturned

UnitNext == ApplyMilesToKm \/ ApplyFahrenheitToCelsius

UnitSpec == UnitInit /\ [][UnitNext]_vars

\* A numeric argument: an int (of any size), a float or a bool.
NumericInput(v) == v.ty \in {"int", "float", "bool", "hugeint"}

\* An absent, empty or unparseable argument.
NoNumber(v) ==
    \/ v.ty \in {"none", "list", "dict"}
    \/ v.ty = "str" /\ ~ParseDecimal(v.cs).ok

\* r is a float, in hundredths the integer nearest to num / den.
IsRounded(r, num, den) ==
    /\ r.ty = "float"
    /\ 2 * Abs(den * r.h - num) <= den

\* The documented results, argument and result in hundredths.
KmExamples == (10000 :> 16093) @@ (0 :> 0) @@ (100 :> 161)

\* C26: miles_to_km returns x * 1.60934 rounded to 2 decimals for every
\* numeric argument (100 gives 160.93, 0 gives 0.0, 1 gives 1.61), and
\* returns None, raising nothing, for an absent, empty or unparseable one.
C26_MilesToKmTotal ==
    (call.op = "miles_to_km" /\ returned.done)
    => /\ returned.value # PyOverflowError
       /\ NumericInput(call.arg)
            => /\ Abs(call.arg.h) <= 100 * MaxUnitInput
                    => IsRounded(returned.value, 160934 * call.arg.h, 100000)
               /\ call.arg.h \in DOMAIN KmExamples
                    => returned.value.h = KmExamples[call.arg.h]
       /\ NoNumber(call.arg) => returned.value = PyNone

\* The documented results, argument and result in hundredths.
CelsiusOfFahrenheit == (3200 :> 0) @@ (10000 :> 3778) @@ (21200 :> 10000)

\* C27: fahrenheit_to_celsius returns (x - 32) * 5/9 rounded to 2 decimals
\* for every numeric argument (32 gives 0.0, 100 gives 37.78, 212 gives
\* 100.0), and returns None, raising nothing, for an absent, empty or
\* unparseable one.
C27_FahrenheitToCelsiusTotal ==
    (call.op = "fahrenheit_to_celsius" /\ returned.done)
    => /\ returned.value # PyOverflowError
       /\ NumericInput(call.arg)
            => /\ IsRounded(returned.value, 5 * (call.arg.h - 3200), 9)
               /\ call.arg.h \in DOMAIN CelsiusOfFahrenheit
                    => returned.value.h = CelsiusOfFahrenheit[call.arg.h]
       /\ NoNumber(call.arg) => returned.value = PyNone

-----------------------------------------------------------------------------
\* Loading a metadata file that cannot be read to its end

\* The call that loaded the metadata has returned (or raised).
LoadReturned == call.op = "_load_field_metadata" /\ returned.done

\* The file is missing, or one of its rows is malformed.
LoadFails(file) ==
    \/ file.kind = "missing"
    \/ \E i \in DOMAIN file.rows : file.rows[i].kind # "row"

\* The built-in topic and type of a distance, speed, temperature or
\* location field.
BuiltInFields ==
    (DOMAIN FixedTopics) \cup TEMPERATURE_FIELDS \cup LOCATION_FIELDS
BuiltInTopic(f) ==
    IF f \in DOMAIN FixedTopics THEN FixedTopics[f]
    ELSE Text(camel_to_snake(f))
BuiltInType(f) == IF f \in LOCATION_FIELDS THEN "object" ELSE "real"

HoldsBuiltIn(conv, f) ==
    /\ f \in DOMAIN conv.field_mappings
    /\ f \in DOMAIN conv.field_types
    /\ conv.field_mappings[f] = BuiltInTopic(f)
    /\ conv.field_types[f] = BuiltInType(f)

\* C28: loading the field metadata never raises; on a missing file, or on
\* a malformed row at any position, the registry holds the built-in topic
\* and type of every distance, speed, temperature and location field,
\* whatever the rows before the failure said about them.
C28_LoadFallsBackToBuiltIns ==
    LoadReturned
    => /\ ~returned.value.raised
       /\ LoadFails(call.file)
            => \A f \in BuiltInFields : HoldsBuiltIn(returned.value.conv, f)

\* A row giving Odometer the type boolean was read, the next row was short,
\* and the registry holds real for Odometer.
C28_Witness ==
    /\ LoadReturned
    /\ call.file.kind = "readable"
    /\ Len(call.file.rows) = 2
    /\ call.file.rows[1] = Row(F_Odometer, T_Boolean, K_Vehicle)
    /\ call.file.rows[2] = ShortRow
    /\ ~returned.value.raised
    /\ returned.value.conv.field_types[F_Odometer] = "real"

-----------------------------------------------------------------------------
\* The reconnect manager over the cycles of a session

\* The step in which subscribe_to_vehicle_data returns True.
SubscribedNow(c) == pc[c] = "sub_wait" /\ pc'[c] = "streaming"

\* The ways a cycle fails: no connection, no subscription, or a stream
\* that ends with an exception or a closed transport.
FailedCycleEnds ==
    {"connect_failed", "subscribe_failed", "subscribe_timeout",
     "stream_failed", "transport_closed"}

\* The step in which a failed cycle of session c ends: the session leaves
\* the connect or the close towards the next iteration.
FailedCycleEndsNow(c) ==
    /\ pc[c] \in {"connecting", "closing"}
    /\ pc'[c] \in {"connecting", "sleeping"}
    /\ cycleEnd'[c] \in FailedCycleEnds

\* C29: reset is called once per successful subscription and nowhere else,
\* next_delay once per failed connection, subscription or stream cycle, so
\* that the attempt count of a running session changes only in these two
\* steps: to 0 when the subscription succeeds, by 1 when a cycle fails.
C29_AttemptsCountFailedCycles ==
    [][\A c \in Cars :
          /\ SubscribedNow(c) => attempts'[c] = 0
          /\ FailedCycleEndsNow(c) => attempts'[c] = attempts[c] + 1
          /\ (attempts'[c] # attempts[c] /\ pc'[c] # "done")
                => SubscribedNow(c) \/ FailedCycleEndsNow(c)]_vars

-----------------------------------------------------------------------------
\* The range of the delays next_delay returns

NextDelayReturned == call.op = "next_delay" /\ returned.done

\* C30: every delay next_delay returns lies between the base delay and the
\* maximum delay plus its jitter, (1 + jitter) * max_delay: it is never
\* below the base delay, and it may lie above the maximum delay.
C30_DelayRange ==
    NextDelayReturned
    => /\ returned.value.delay >= BaseDelay * 100
       /\ returned.value.delay <= MaxDelay * (100 + JitterPercent)

\* A delay above the maximum delay was returned.
C30_Witness ==
    /\ NextDelayReturned
    /\ returned.value.delay > MaxDelay * 100

-----------------------------------------------------------------------------
\* The message that confirms the subscription

ConfirmationClasses == {ConfirmationClass(m) : m \in Messages}

\* The step in which session c, waiting for the confirmation, receives a
\* message.
ConfirmationReceivedNow(c) ==
    /\ pc[c] = "sub_wait"
    /\ lastRecv'[c] \in ConfirmationClasses

\* C31: the first message received while subscribing confirms the
\* subscription whatever it holds, an error frame included: the session
\* publishes online and nothing else, enters Streaming on the open
\* transport, and discovers no field.
C31_FirstMessageConfirms ==
    [][\A c \in Cars :
          ConfirmationReceivedNow(c)
          => /\ published' = <<publish_state(c, "online")>>
             /\ pc'[c] = "streaming"
             /\ wsOpen'[c]
             /\ lastState'[c] = "online"
             /\ discovered_fields' = discovered_fields]_vars

\* A vehicle_offline error frame was taken as the confirmation: the session
\* is streaming with online as its state.
C31_Witness ==
    \E c \in Cars :
        /\ lastRecv[c] = "confirmation_vehicle_offline"
        /\ pc[c] = "streaming"
        /\ lastState[c] = "online"

-----------------------------------------------------------------------------
\* The transport connection over the cycles of a session

\* The session is between two cycles: connecting or sleeping before it.
BetweenCycles(c) == pc[c] \in {"connecting", "sleeping"}

\* C32: a session holds at most one open transport: whenever it is about
\* to connect, the connection of the cycle before is closed; and once the
\* session has exited on cancellation no connection is left open.
C32_OneTransportClosedOnExit ==
    \A c \in Cars :
        /\ BetweenCycles(c) => ~wsOpen[c]
        /\ pc[c] = "done" => ~wsOpen[c]

-----------------------------------------------------------------------------
\* The states a session publishes

SessionStates ==
    {"online", "error", "disconnected", "vehicle_disconnected",
     "vehicle_offline"}

\* The states among the publications pubs.
StatesPublished(pubs) ==
    {pubs[i] : i \in {k \in DOMAIN pubs : pubs[k].topic = "state"}}

\* Session c holds an open transport and its subscription is confirmed,
\* before the step or by the step: it is streaming, or it receives the
\* confirmation and enters Streaming.
ConfirmedAndOpen(c) ==
    /\ wsOpen[c]
    /\ \/ pc[c] = "streaming"
       \/ pc[c] = "sub_wait" /\ pc'[c] = "streaming" /\ wsOpen'[c]

\* C33: a session publishes online only with an open transport whose
\* subscription is confirmed (entering Streaming, or on a message while
\* Streaming), never while connecting, subscribing, sleeping or after its
\* cancellation; every state published is one of the five session states.
C33_OnlineOnlyWhenSubscribed ==
    [][\A p \in StatesPublished(published') :
          /\ p.value \in SessionStates
          /\ p.value = "online" => ConfirmedAndOpen(p.car)]_vars

\* A streaming session published online for a message it received.
C33_Witness ==
    \E c \in Cars :
        /\ pc[c] = "streaming"
        /\ lastRecv[c] = "other"
        /\ publish_state(c, "online") \in StatesPublished(published)

-----------------------------------------------------------------------------
\* Publications and the end of the MQTT connection

\* C34: once main has disconnected the MQTT client no session publishes
\* any more, whatever the order of main's shutdown and the unwinding of
\* the cancelled sessions.
C34_NoPublishAfterDisconnect == ~mqttConnected => published = <<>>

-----------------------------------------------------------------------------
\* process_vehicle_message called by itself

\* Error frames that carry a data list with readings and a vin as well.
ErrorFramesWithData ==
    { Msg("object", e, t, DataList(SpeedAndNewFields), "VIN1") :
        e \in {"vehicle_offline", "unknown", "notobject"},
        t \in {"absent", "data:update"} }

\* The fields discovered before the call.
SeenBefore == SUBSET {F_Soc, F_Gear}

MessageCall(c, m) ==
    [op |-> "process_vehicle_message", car |-> c, message |-> m]

\* process_vehicle_message(message, car_num, ...) of the shared converter.
ApplyProcessMessageWith(r) ==
    /\ returned' = Returned(r)
    /\ published' = r.pubs
    /\ discovered_fields' = r.discovered_fields
    /\ announced' = Announce(announced, r.discovered_fields \ discovered_fields)
    /\ UNCHANGED <<pc, attempts, delay, wsOpen, pending, cancelPending,
                   lastState, cycleEnd, backoff, cancelledAt, lastRecv,
                   mainVars, call, service>>

ApplyProcessMessage ==
    /\ call.op = "process_vehicle_message"
    /\ ~returned.done
    /\ ApplyProcessMessageWith(
           process_vehicle_message(call.car, tesla_converter,
                                   discovered_fields, call.message))

MessageInit ==
    /\ BridgeInit
    /\ discovered_fields \in SeenBefore
    /\ announced = Announce(NoneAnnounced, discovered_fields)
    /\ call \in {MessageCall(c, m) :
                    c \in Cars, m \in Messages \cup ErrorFramesWithData}
    /\ returned = NotReturned

MessageNext == ApplyProcessMessage

MessageSpec == MessageInit /\ [][MessageNext]_vars

\* The message of the call is a JSON object with an error member.
HasErrorMember(m) == m.parse = "object" /\ m.error # "absent"

\* C35: a message with an error member is handled as an error frame only:
\* even when it has a msg_type or a data list, neither online nor a field
\* value nor the vin is published for it.
C35_ErrorTakesPrecedence ==
    (call.op = "process_vehicle_message" /\ returned.done
        /\ HasErrorMember(call.message))
    => \A i \in DOMAIN returned.value.pubs :
            /\ returned.value.pubs[i].topic = "state"
            /\ returned.value.pubs[i].value # "online"

\* A vehicle_offline frame that is a control:hello with readings and a vin
\* as well was processed: the one publication is the state vehicle_offline.
C35_Witness ==
    /\ call.op = "process_vehicle_message"
    /\ returned.done
    /\ call.message = Msg("object", "vehicle_offline", "control:hello",
                          DataList(SpeedAndNewFields), "VIN1")
    /\ returned.value.pubs = <<publish_state(call.car, "vehicle_offline")>>
    /\ returned.value.result = "stop"

-----------------------------------------------------------------------------
\* What the sessions share

\* The lifecycle state of session c: where it is, its transport and its
\* reconnect manager.
Lifecycle(c) == <<pc[c], wsOpen[c], attempts[c]>>

\* C36: sessions share no lifecycle state: a step of one session (a failed
\* connect with its next_delay, a reset, a sleep, the end of streaming, the
\* unwinding of a cancellation) leaves position, transport and attempt
\* count of every other session as they were, so no step changes the
\* lifecycle state of two sessions.
C36_SessionsIndependent ==
    [][\A c, d \in Cars :
          (c # d /\ Lifecycle(c)' # Lifecycle(c))
          => Lifecycle(d)' = Lifecycle(d)]_vars

\* While session c sleeps in its backoff, with a count its manager alone
\* holds, session d received a message and published for it.
C36_Witness ==
    \E c, d \in Cars :
        /\ c # d
        /\ pc[c] = "sleeping"
        /\ attempts[c] = 1
        /\ attempts[d] = 0
        /\ pc[d] = "streaming"
        /\ lastRecv[d] = "other"
        /\ published # <<>>
        /\ \A i \in DOMAIN published : published[i].car = d

-----------------------------------------------------------------------------
\* The service wrapper: SvcStop against SvcDoRun

ServiceInit ==
    /\ BridgeInit
    /\ discovered_fields = {}
    /\ announced = NoneAnnounced
    /\ call = NoCall
    /\ returned = NotReturned

ServiceNext == SvcDoRun \/ SvcStop \/ ProcessExits

ServiceSpec == ServiceInit /\ [][ServiceNext]_vars

\* SvcStop has completed and SvcDoRun has returned.
ServiceStopped == service.stop = "returned" /\ service.run = "returned"

\* C37: once SvcStop has completed and SvcDoRun has returned no subprocess
\* the service started still runs, and SvcDoRun starts no subprocess once
\* SvcStop has set running to False.
C37_StopLeavesNoSubprocess ==
    [][/\ ServiceStopped' => service'.live = {}
       /\ ~service.running => service'.spawned = service.spawned]_vars

====
